---- MODULE Spec2Model ----
(***************************************************************************)
(* Wechatsync: the sync orchestrator (SyncEngine) and the declarative      *)
(* adapter runtime (DSLAdapter).                                           *)
(*                                                                         *)
(* The code is asynchronous JavaScript on one event loop.  An action of    *)
(* this model is one run-to-completion turn of that loop: the code that    *)
(* runs from the moment an awaited call settles up to the next await that  *)
(* suspends on an external call (registry lookup, adapter call, transport).*)
(* The only synchronous code modelled step by step is the loop of          *)
(* SyncEngine.chunk, because whether it finishes is itself a question.     *)
(***************************************************************************)
EXTENDS Integers, Sequences, FiniteSets, TLC

(***************************************************************************)
(* Bounds of the model.                                                    *)
(***************************************************************************)
MaxPlatforms == 4
MaxConcurrency == 2
MaxNegConcurrency == 1
MaxRepeatPlatforms == 1

\* A terminating chunk loop pushes at most one chunk per platform; the loop
\* counter of the model is cut off one iteration past that.
ChunkCap == MaxPlatforms + 1

Undefined == "undefined"

VARIABLES
    platforms,        \* sync's argument: the target platform ids, in order
    options,          \* sync's argument: SyncOptions
    pc,               \* where SyncEngine.sync is
    i,                \* chunk: loop index
    chunks,           \* chunk: the chunks pushed so far; then sync's batches
    batchIdx,         \* sync: index (1-based) of the batch being awaited
    task,             \* the SyncTask
    wf,               \* per platform: where its syncToPlatform call is
    mapPromise,       \* per platform: the promise of batch.map's callback
    progress,         \* per platform: the results handed to onProgress
    overtaken,        \* a workflow settled before an earlier one of its batch
    cancelRequested,  \* a CANCEL_SYNC message was sent by the popup
    tasks,            \* the tasks of the engine's earlier sync calls
    dsl,              \* one DSLAdapter: its adapter definition
    run,              \* one DSLAdapter: a syncToPlatform call on it
    runs,             \* one DSLAdapter: two publish calls on it
    retry,            \* a requestWithRetry call
    loader,           \* the loading of a batch of adapter definitions
    expr,             \* a call of the expression evaluator or the interpolator
    cms,              \* the popup's CMS account store and chrome.storage
    sse,              \* the MCP server's SSE connections and HTTP requests
    mig,              \* checkAndMigrate invocations and chrome.storage
    poll              \* a WeiboAdapter.waitForImageDone call

\* the state of SyncEngine.sync
syncVars == <<platforms, options, pc, i, chunks, batchIdx, task, wf, mapPromise,
              progress, overtaken, cancelRequested, tasks>>

\* the state of one run on a DSLAdapter
runVars == <<dsl, run>>

\* the state of the other calls followed: two runs side by side, a request
\* with retries, a batch of definitions being loaded
libVars == <<runs, retry, loader>>

\* the state of the extension's and the server's other parts followed
auxVars == <<expr, cms, sse, mig, poll>>

vars == <<syncVars, runVars, libVars, auxVars>>

PlatformId == 1..MaxPlatforms

NoResult == [platform |-> 0, success |-> FALSE, error |-> "no result"]

\* a syncToPlatform call that has not settled
Unsettled(where) == [pc |-> where, result |-> NoResult, cause |-> "none"]

(***************************************************************************)
(* SyncEngine.sync: options and their defaults.                            *)
(***************************************************************************)
\* An optional field of the options object: given with a value, or left out.
Omitted(dflt) == [given |-> FALSE, value |-> dflt]
Given(v) == [given |-> TRUE, value |-> v]

\* line 50: concurrency = 3
DefaultConcurrency == 3

Concurrency ==
    IF options.concurrency.given THEN options.concurrency.value ELSE DefaultConcurrency

\* line 51: continueOnError = true
ContinueOnError ==
    IF options.continueOnError.given THEN options.continueOnError.value ELSE TRUE

(***************************************************************************)
(* Array.prototype.slice(start, end) on a 0-based array, held here as a    *)
(* 1-based sequence: negative indices count from the end, both clamped.    *)
(***************************************************************************)
Max(a, b) == IF a > b THEN a ELSE b
Min(a, b) == IF a < b THEN a ELSE b

JsSlice(arr, start, end) ==
    LET len == Len(arr)
        k == IF start < 0 THEN Max(len + start, 0) ELSE Min(start, len)
        final == IF end < 0 THEN Max(len + end, 0) ELSE Min(end, len)
    IN SubSeq(arr, k + 1, final)

\* a chunk one element too long
ChunkSliceOverlong(array, idx, size) == JsSlice(array, idx, idx + size + 1)

\* chunk: the slice pushed by one iteration of the loop
ChunkSlice(array, idx, size) == JsSlice(array, idx, idx + size)

\* chunk: the loop condition
\* the loop stops one element early
ChunkLoopCondShort(array, idx) == idx + 1 < Len(array)

ChunkLoopCond(array, idx) == idx < Len(array)

(***************************************************************************)
(* SyncEngine.sync: decisions after a batch.                               *)
(***************************************************************************)
\* the stop check left out
ShouldStopNever(batchResults) == FALSE

\* line 82: stop scheduling further batches
ShouldStop(batchResults) ==
    /\ ~ContinueOnError
    /\ \E j \in 1..Len(batchResults) : ~batchResults[j].success

\* line 87: the final status
FinalStatus(results) ==
    IF \A j \in 1..Len(results) : results[j].success THEN "completed" ELSE "failed"

\* the error leaves sync instead of being caught
SyncCatchRethrow(t) == [outcome |-> "rethrown", status |-> t.status]

\* lines 88-90: an error raised inside the try block
SyncCatch(t) == [outcome |-> "caught", status |-> "failed"]

(***************************************************************************)
(* SyncEngine.syncToPlatform: the results it builds.                       *)
(***************************************************************************)
Returned(r) == [kind |-> "return", result |-> r, error |-> "none"]
Thrown(msg) == [kind |-> "throw", result |-> NoResult, error |-> msg]

\* lines 103-110
NotFoundResult(platformId) ==
    [platform |-> platformId, success |-> FALSE, error |-> "Platform not found"]

\* lines 114-121
NotAuthenticatedResult(platformId, auth) ==
    [platform |-> platformId, success |-> FALSE,
     error |-> "Not authenticated: " \o
               (IF auth.error.given /\ auth.error.value # ""
                THEN auth.error.value ELSE "Please login first")]

\* the error leaves syncToPlatform instead of becoming a result
SyncToPlatformRethrow(platformId, msg) == Thrown(msg)

\* the authentication result is not looked at
AuthPassesAlways(auth) == TRUE

\* line 114: the workflow goes on to publish only when authenticated
AuthPasses(auth) == auth.isAuthenticated

\* lines 125-132: the catch block of syncToPlatform
SyncToPlatformCatch(platformId, msg) ==
    Returned([platform |-> platformId, success |-> FALSE, error |-> msg])

(***************************************************************************)
(* What the collaborators of syncToPlatform may answer.                    *)
(***************************************************************************)
\* adapterRegistry.get(platformId)
RegistryOutcomes == {"adapter", "undefined", "throws"}

\* adapter.checkAuth()
AuthOutcomes ==
    { [kind |-> "return", isAuthenticated |-> TRUE, error |-> Omitted("")],
      [kind |-> "return", isAuthenticated |-> FALSE, error |-> Omitted("")],
      [kind |-> "return", isAuthenticated |-> FALSE, error |-> Given("expired")],
      [kind |-> "throw", isAuthenticated |-> FALSE, error |-> Given("checkAuth failed")] }

\* adapter.publish(article)
PublishOutcomes(platformId) ==
    { Returned([platform |-> platformId, success |-> TRUE, error |-> "none"]),
      Returned([platform |-> platformId, success |-> FALSE, error |-> "Request failed"]),
      Thrown("publish failed") }

(***************************************************************************)
(* JavaScript values, as far as the adapter runtime looks at them: a tag   *)
(* and the text of the value (for an object, its fields).                  *)
(***************************************************************************)
UndefinedV == [t |-> "undefined", v |-> "undefined"]
NullV == [t |-> "null", v |-> "null"]
Bool(b) == [t |-> "boolean", v |-> IF b THEN "true" ELSE "false"]
Num(numeral) == [t |-> "number", v |-> numeral]
Str(text) == [t |-> "string", v |-> text]
Obj(fields) == [t |-> "object", v |-> fields]

\* what `if (x)`, `!x` and `x && y` test
Truthy(x) ==
    CASE x.t = "boolean" -> x.v = "true"
      [] x.t = "number" -> x.v \notin {"0", "-0", "NaN"}
      [] x.t = "string" -> x.v # ""
      [] x.t = "object" -> TRUE
      [] OTHER -> FALSE

\* String(x)
JsString(x) == IF x.t = "object" THEN "[object Object]" ELSE x.v

\* x === y, y a primitive
StrictEquals(x, y) == x.t # "object" /\ x.t = y.t /\ x.v = y.v

\* a list of <<name, value>> pairs read as an object: obj?.name
Lookup(pairs, name) ==
    IF \E j \in 1..Len(pairs) : pairs[j][1] = name
    THEN pairs[CHOOSE j \in 1..Len(pairs) :
                 /\ pairs[j][1] = name
                 /\ \A k \in (j + 1)..Len(pairs) : pairs[k][1] # name][2]
    ELSE UndefinedV

(***************************************************************************)
(* DSLAdapter.getNestedValue: path.split('.') folded over the data.        *)
(***************************************************************************)
RECURSIVE GetNestedValue(_, _)
GetNestedValue(obj, keys) ==
    IF keys = << >> THEN obj
    ELSE GetNestedValue(
            IF obj.t = "object" /\ Head(keys) \in DOMAIN obj.v
            THEN obj.v[Head(keys)] ELSE UndefinedV,
            Tail(keys))

(***************************************************************************)
(* The expressions of an endpoint's response contract.  An expression is   *)
(* held parsed: whether it starts with "$", the keys of its dotted path,   *)
(* and, for "<path> op <literal>", the operator and the value that         *)
(* parseCompareValue gives the literal.                                    *)
(***************************************************************************)
NoExpr == [dollar |-> FALSE, keys |-> << >>, op |-> "absent", lit |-> UndefinedV]
PathExpr(keys) == [dollar |-> TRUE, keys |-> keys, op |-> "none", lit |-> UndefinedV]
CompareExpr(keys, op, lit) == [dollar |-> TRUE, keys |-> keys, op |-> op, lit |-> lit]

\* `if (endpoint.response.success)`: the expression is there
HasExpr(e) == e.op # "absent"

\* DSLAdapter.extractValue: the "$." or "$" prefix dropped
ExtractValue(e, data) == GetNestedValue(data, e.keys)

\* DSLAdapter.evaluateJsonPath.  The comparison pattern wants a leading "$";
\* any other text is read as a plain path, operator and literal included
\* in its last key.
EvaluateJsonPath(e, data) ==
    IF e.dollar /\ e.op \in {"==", "!="}
    THEN IF e.op = "!="
         THEN Bool(~StrictEquals(ExtractValue(e, data), e.lit))
         ELSE Bool(StrictEquals(ExtractValue(e, data), e.lit))
    ELSE IF e.op \in {"==", "!="}
    THEN GetNestedValue(data,
            [e.keys EXCEPT ![Len(e.keys)] = @ \o " " \o e.op \o " " \o JsString(e.lit)])
    ELSE ExtractValue(e, data)

(***************************************************************************)
(* Adapter definitions (AdapterDSL, EndpointDef).                          *)
(***************************************************************************)
AbsentEndpoint ==
    [present |-> FALSE, success |-> NoExpr, error |-> NoExpr, extract |-> << >>]

Endpoint(success, error, extract) ==
    [present |-> TRUE, success |-> success, error |-> error, extract |-> extract]

CodeIsZero == CompareExpr(<<"code">>, "==", Num("0"))

\* auth.check: without a success predicate, with one, with one and an
\* error path
AuthEndpoints ==
    { Endpoint(NoExpr, NoExpr, << >>),
      Endpoint(CodeIsZero, NoExpr, << >>),
      Endpoint(CodeIsZero, PathExpr(<<"msg">>), << >>) }

CreateDraftEndpoints ==
    { AbsentEndpoint,
      Endpoint(NoExpr, NoExpr, << <<"draft_id", PathExpr(<<"id">>)>> >>),
      Endpoint(CodeIsZero, PathExpr(<<"msg">>), << <<"draft_id", PathExpr(<<"id">>)>> >>) }

UpdateDraftEndpoints ==
    { AbsentEndpoint, Endpoint(CodeIsZero, PathExpr(<<"msg">>), << >>) }

PublishEndpoints ==
    { AbsentEndpoint,
      Endpoint(CodeIsZero, PathExpr(<<"msg">>),
               << <<"post_id", PathExpr(<<"id">>)>>, <<"post_url", PathExpr(<<"url">>)>> >>) }

\* draft_url_template: absent, or the address of the draft's edit page
NoTemplate == "undefined"
DraftIdPlaceholder == "{{draft_id}}"
DraftUrlTemplates == { NoTemplate, "https://p/edit/{{draft_id}}/form" }

\* the hooks a definition may come with (customLogic)
HookNames == {"process_images", "upload_image_by_url", "content_transform"}

AdapterDSLs ==
    { [name |-> 1, auth |-> a, create_draft |-> c, update_draft |-> u, publish |-> pb,
       draft_url_template |-> t, html_processing |-> h, output_format |-> f,
       customLogic |-> cl] :
        a \in AuthEndpoints, c \in CreateDraftEndpoints,
        u \in UpdateDraftEndpoints, pb \in PublishEndpoints,
        t \in DraftUrlTemplates, h \in BOOLEAN, f \in {"html", "markdown"},
        cl \in SUBSET HookNames }

NoDSL ==
    [name |-> 0, auth |-> AbsentEndpoint, create_draft |-> AbsentEndpoint,
     update_draft |-> AbsentEndpoint, publish |-> AbsentEndpoint,
     draft_url_template |-> NoTemplate, html_processing |-> FALSE,
     output_format |-> "html", customLogic |-> {}]

(***************************************************************************)
(* What the transport (runtime.fetch) may answer.                          *)
(***************************************************************************)
NetworkError ==
    [kind |-> "network error", ok |-> FALSE, status |-> "0",
     statusText |-> "Failed to fetch", body |-> UndefinedV]

HttpResponse(ok, status, statusText, body) ==
    [kind |-> "http", ok |-> ok, status |-> status, statusText |-> statusText,
     body |-> body]

Bodies ==
    { Obj([code |-> Num("0"), id |-> Str("d1"), url |-> Str("https://p/d1")]),
      Obj([code |-> Num("0")]),
      Obj([code |-> Num("1"), msg |-> Str("denied")]),
      Obj([code |-> Num("1")]) }

Responses ==
    { NetworkError,
      HttpResponse(FALSE, "401", "Unauthorized", Obj([code |-> Num("0")])) }
    \cup { HttpResponse(TRUE, "200", "OK", b) : b \in Bodies }

(***************************************************************************)
(* BaseAdapter.request, lines 37-55, once runtime.fetch has settled.       *)
(***************************************************************************)
RequestReturn(data) == [kind |-> "return", data |-> data, extracted |-> << >>,
                        error |-> "none"]
RequestThrow(msg) == [kind |-> "throw", data |-> UndefinedV, extracted |-> << >>,
                      error |-> msg]

\* the status of the answer is not looked at
RequestIgnoringStatus(resp) ==
    IF resp.kind = "network error" THEN RequestThrow(resp.statusText)
    ELSE RequestReturn(resp.body)

Request(resp) ==
    IF resp.kind = "network error" THEN RequestThrow(resp.statusText)
    ELSE IF ~resp.ok
    THEN RequestThrow("HTTP " \o resp.status \o ": " \o resp.statusText)
    ELSE RequestReturn(resp.body)

(***************************************************************************)
(* DSLAdapter.executeEndpoint, lines 345-373, once the transport has       *)
(* answered resp.                                                          *)
(***************************************************************************)
\* an endpoint without a success predicate is held to "$.code == 0"
RejectedByDefaultPredicate(endpoint, response) ==
    ~Truthy(EvaluateJsonPath(IF HasExpr(endpoint.success) THEN endpoint.success
                             ELSE CodeIsZero, response))

\* lines 352-357: a success predicate is there and the answer fails it
Rejected(endpoint, response) ==
    HasExpr(endpoint.success) /\ ~Truthy(EvaluateJsonPath(endpoint.success, response))

\* the error path of the endpoint is not looked at
RejectionMessageGeneric(endpoint, response) == "Request failed"

\* lines 358-361: the message of the error thrown
RejectionMessage(endpoint, response) ==
    JsString(IF HasExpr(endpoint.error)
             THEN EvaluateJsonPath(endpoint.error, response)
             ELSE Str("Request failed"))

ExecuteEndpoint(endpoint, resp) ==
    LET got == Request(resp)
        response == got.data
    IN IF got.kind = "throw" THEN got
       ELSE IF Rejected(endpoint, response)
       THEN RequestThrow(RejectionMessage(endpoint, response))
       ELSE [kind |-> "return", data |-> response, error |-> "none",
             extracted |-> [j \in 1..Len(endpoint.extract) |->
                              << endpoint.extract[j][1],
                                 EvaluateJsonPath(endpoint.extract[j][2], response) >>]]

(***************************************************************************)
(* DSLAdapter.checkAuth, lines 126-140, once the transport has answered.   *)
(***************************************************************************)
CheckAuth(resp) ==
    LET result == ExecuteEndpoint(dsl.auth, resp)
    IN IF result.kind = "return"
       THEN [kind |-> "return", isAuthenticated |-> TRUE, error |-> Omitted("")]
       ELSE [kind |-> "return", isAuthenticated |-> FALSE, error |-> Given(result.error)]

(***************************************************************************)
(* String.prototype.replace(pattern, replacement) with a string pattern:   *)
(* the first occurrence only.  (No replacement drawn here holds a "$".)    *)
(***************************************************************************)
JsReplace(text, pattern, replacement) ==
    LET hits == { k \in 1..(Len(text) - Len(pattern) + 1) :
                    SubSeq(text, k, k + Len(pattern) - 1) = pattern }
    IN IF hits = {} THEN text
       ELSE LET k == CHOOSE h \in hits : \A g \in hits : h <= g
            IN SubSeq(text, 1, k - 1) \o replacement
                 \o SubSeq(text, k + Len(pattern), Len(text))

(***************************************************************************)
(* One run on the DSLAdapter: a syncToPlatform call of the engine, or a    *)
(* publish call made directly with PublishOptions.                         *)
(***************************************************************************)
NoRunResult ==
    [platform |-> 0, success |-> FALSE, error |-> "no result", postId |-> UndefinedV,
     postUrl |-> UndefinedV, draftOnly |-> UndefinedV]

\* article: the caller's article; cover, content: the working article's;
\* hooks: the custom logic called so far and how each call ended
NoRun ==
    [pc |-> "none", entry |-> "none", draftOnly |-> FALSE,
     article |-> [cover |-> UndefinedV, html |-> << >>], cover |-> UndefinedV,
     content |-> << >>,
     hooks |-> << >>, requests |-> << >>, responses |-> << >>,
     draft_id |-> UndefinedV, result |-> NoRunResult]

\* BaseAdapter.createResult
CreateResult(success, error, postId, postUrl, draftOnly) ==
    [platform |-> dsl.name, success |-> success, error |-> error, postId |-> postId,
     postUrl |-> postUrl, draftOnly |-> draftOnly]

\* a SyncResult built by syncToPlatform itself
EngineResult(r) ==
    [platform |-> r.platform, success |-> r.success, error |-> r.error,
     postId |-> UndefinedV, postUrl |-> UndefinedV, draftOnly |-> UndefinedV]

\* the context an endpoint's request is built from
EmptyContext == [draft_id |-> UndefinedV, cover |-> UndefinedV, content |-> << >>]
Context(r) == [draft_id |-> r.draft_id, cover |-> r.cover, content |-> r.content]

\* the request of an endpoint is built from the context and goes to the
\* transport; the run awaits the answer
Send(r, name, context) ==
    [r EXCEPT !.pc = name,
              !.requests = Append(@, [endpoint |-> name, context |-> context])]

\* the call settles with a result
Settled(r, result) == [r EXCEPT !.pc = "done", !.result = result]

\* a hook has been called and has ended
Hooked(r, name, outcome) ==
    [r EXCEPT !.hooks = Append(@, [name |-> name, outcome |-> outcome])]

\* the transform rewrites the caller's article as well
TransformedInPlace(r, name) ==
    [r EXCEPT !.content = Append(@, name), !.article.html = Append(@, name)]

\* a transform has rewritten the working article's content: a new working
\* article holds it
Transformed(r, name) == [r EXCEPT !.content = Append(@, name)]

\* the endpoint that failed is sent again
PublishCatchResends(r, msg) ==
    IF r.requests # << >> /\ Len(r.requests) < 5
    THEN Send(r, r.requests[Len(r.requests)].endpoint, Context(r))
    ELSE Settled(r, CreateResult(FALSE, msg, UndefinedV, UndefinedV, UndefinedV))

\* DSLAdapter.publish, lines 251-255: the catch block
PublishCatch(r, msg) ==
    Settled(r, CreateResult(FALSE, msg, UndefinedV, UndefinedV, UndefinedV))

\* lines 226-229: the address of the draft's edit page
DraftUrl(r) ==
    IF dsl.draft_url_template # NoTemplate /\ Truthy(Str(dsl.draft_url_template))
       /\ Truthy(r.draft_id)
    THEN Str(JsReplace(dsl.draft_url_template, DraftIdPlaceholder, JsString(r.draft_id)))
    ELSE UndefinedV

\* the publish request is sent whatever the caller asked for
AfterUpdateDraftIgnoringOption(r) ==
    IF dsl.publish.present THEN Send(r, "publish", Context(r))
    ELSE Settled(r, CreateResult(TRUE, "none", r.draft_id, UndefinedV, UndefinedV))

\* DSLAdapter.publish, lines 223-250: after the draft steps
AfterUpdateDraft(r) ==
    IF r.draftOnly
    THEN Settled(r, CreateResult(TRUE, "none", r.draft_id, DraftUrl(r), Bool(TRUE)))
    ELSE IF dsl.publish.present THEN Send(r, "publish", Context(r))
    ELSE Settled(r, CreateResult(TRUE, "none", r.draft_id, UndefinedV, UndefinedV))

\* update_draft is sent whenever the definition has it
AfterCreateDraftAlwaysUpdates(r) ==
    IF dsl.update_draft.present
    THEN Send(r, "update_draft", Context(r))
    ELSE AfterUpdateDraft(r)

\* DSLAdapter.publish, lines 218-221: update_draft wants a draft id
AfterCreateDraft(r) ==
    IF Truthy(r.draft_id) /\ dsl.update_draft.present
    THEN Send(r, "update_draft", Context(r))
    ELSE AfterUpdateDraft(r)

\* the extracted draft_id is dropped instead of stored
StoreDraftIdNowhere(r, draftResult) == r

\* lines 214-215: the extracted draft_id goes into the context
StoreDraftId(r, draftResult) ==
    [r EXCEPT !.draft_id = Lookup(draftResult.extracted, "draft_id")]

\* a definition without create_draft makes the run fail
DraftStepsWantCreateDraft(r) ==
    IF dsl.create_draft.present THEN Send(r, "create_draft", Context(r))
    ELSE PublishCatch(r, "create_draft is not supported")

\* DSLAdapter.publish, lines 207-216, up to the request of create_draft
DraftSteps(r) ==
    IF dsl.create_draft.present THEN Send(r, "create_draft", Context(r))
    ELSE AfterCreateDraft(r)

\* how a call of the content_transform hook may end
HookOutcomes == {"returned", "threw"}

\* the conversion to Markdown comes before content_transform
AfterCoverMarkdownFirst(r, ct) ==
    LET called == "content_transform" \in dsl.customLogic
        r1 == IF dsl.output_format = "markdown" THEN Transformed(r, "htmlToMarkdown")
              ELSE r
        r2 == IF called THEN Hooked(r1, "content_transform", ct) ELSE r1
        r3 == IF called THEN Transformed(r2, "content_transform") ELSE r2
    IN IF called /\ ct = "threw" THEN PublishCatch(r2, "content_transform failed")
       ELSE DraftSteps(r3)

\* DSLAdapter.publish, lines 189-205: content_transform (ct: how the hook
\* ends if it is called), then the conversion to Markdown
AfterCover(r, ct) ==
    LET called == "content_transform" \in dsl.customLogic
        r1 == IF called THEN Hooked(r, "content_transform", ct) ELSE r
        r2 == IF called THEN Transformed(r1, "content_transform") ELSE r1
        r3 == IF dsl.output_format = "markdown" THEN Transformed(r2, "htmlToMarkdown")
              ELSE r2
    IN IF called /\ ct = "threw" THEN PublishCatch(r1, "content_transform failed")
       ELSE DraftSteps(r3)

\* lines 171-174: the cover is uploaded if there is one and a hook for it
AfterProcessImages(r, ct) ==
    IF Truthy(r.cover) /\ "upload_image_by_url" \in dsl.customLogic
    THEN [r EXCEPT !.pc = "upload_image_by_url"]
    ELSE AfterCover(r, ct)

\* DSLAdapter.publish, lines 143-169: the working article and its content,
\* the HTML preprocessing, the call of process_images
PublishBegin(r, ct) ==
    LET r1 == [r EXCEPT !.cover = r.article.cover, !.content = r.article.html]
        r2 == IF dsl.html_processing THEN Transformed(r1, "processHtml") ELSE r1
    IN IF "process_images" \in dsl.customLogic
       THEN [r2 EXCEPT !.pc = "process_images"]
       ELSE AfterProcessImages(r2, ct)

\* what upload_image_by_url may resolve to (a list: the values are of
\* different kinds)
CoverUploadResults ==
    << Str("https://cdn/c.png"), Obj([url |-> Str("https://cdn/c.png")]),
       Obj([id |-> Str("c7")]), UndefinedV >>

Nullish(x) == x.t \in {"undefined", "null"}

\* lines 176-178: the address taken from the hook's result
NewCover(result) ==
    IF result.t = "string" THEN result
    ELSE IF ~Nullish(GetNestedValue(result, <<"src">>))
    THEN GetNestedValue(result, <<"src">>)
    ELSE IF ~Nullish(GetNestedValue(result, <<"url">>))
    THEN GetNestedValue(result, <<"url">>)
    ELSE IF ~Nullish(GetNestedValue(result, <<"image_url">>))
    THEN GetNestedValue(result, <<"image_url">>)
    ELSE Str("")

\* the failure of the cover upload leaves the cover as it was
CoverUploadCatchKeepsCover(r) == r

\* lines 181-186: the upload failed; the cover is cleared
CoverUploadCatch(r) == [r EXCEPT !.cover = Str("")]

(***************************************************************************)
(* The parts of the state that a specification does not follow stay as     *)
(* they are before any call.                                               *)
(***************************************************************************)
NoRuns == [article |-> NoRun.article, original |-> NoRun.article, calls |-> << >>]
\* requestWithRetry: lastError is null (Omitted) until an attempt has failed
NoOutcome == [kind |-> "none", data |-> UndefinedV, error |-> Omitted("")]
NoAttempt == [kind |-> "none", data |-> UndefinedV, extracted |-> << >>,
              error |-> "none"]
DefaultMaxRetries == 3
NoRetry ==
    [pc |-> "none", arg |-> Omitted(DefaultMaxRetries), maxRetries |-> 0, i |-> 0,
     lastError |-> Omitted(""), log |-> << >>, outcome |-> NoOutcome]
\* the loaders: the registry is empty, nothing has been returned or logged
NoLoader ==
    [pc |-> "none", path |-> "none", batch |-> << >>, idx |-> 0, registry |-> {},
     returned |-> << >>, logged |-> << >>]

SyncIdle ==
    /\ platforms = << >>
    /\ options = [concurrency |-> Omitted(0), continueOnError |-> Omitted(FALSE),
                  onProgress |-> FALSE]
    /\ pc = "idle"
    /\ i = 0
    /\ chunks = << >>
    /\ batchIdx = 0
    /\ task = [status |-> "pending", results |-> << >>, completedAt |-> Undefined]
    /\ wf = [p \in PlatformId |-> Unsettled("notStarted")]
    /\ mapPromise = [p \in PlatformId |-> "none"]
    /\ progress = [p \in PlatformId |-> << >>]
    /\ overtaken = FALSE
    /\ cancelRequested = FALSE
    /\ tasks = << >>

RunIdle == dsl = NoDSL /\ run = NoRun

LibIdle == runs = NoRuns /\ retry = NoRetry /\ loader = NoLoader

\* the evaluator and the interpolator: nothing has been called
NoExprCall ==
    [pc |-> "none", fn |-> "none", source |-> << >>, text |-> "", data |-> UndefinedV,
     out |-> UndefinedV]
\* the CMS store as created (accounts: []), nothing stored, no call made; the
\* fields added, removeCalled and removed are the history of the calls
NoStore ==
    [accounts |-> << >>, cmsAccounts |-> << >>, cms_pwd |-> {}, calls |-> << >>,
     now |-> 1, added |-> {}, removeCalled |-> {}, removed |-> {}]
\* the MCP server as constructed: no transport, no connection; lastPost is
\* the history of the latest POST to /message
NoPost == [answer |-> "none", transport |-> 0, open |-> {}]
NoServer == [transport |-> 0, open |-> {}, connections |-> 0, lastPost |-> NoPost]
\* the migration: nothing stored, no old account, no invocation; the fields
\* added and modifiedAfterDone are the history of the writes of cmsAccounts
NoMigration ==
    [v2_migration_done |-> FALSE, cmsAccounts |-> << >>, cms_pwd |-> {},
     oldAccounts |-> << >>, invocations |-> << >>, ids |-> 0,
     added |-> << >>, modifiedAfterDone |-> FALSE]
\* waitForImageDone has not been called; polls and delays count the requests
\* made and the waits ended, last is the answer to the latest request
NoPollResponse == [given |-> FALSE, task_status_code |-> 0]
NoPoll ==
    [pc |-> "none", i |-> 0, polls |-> 0, delays |-> 0, last |-> NoPollResponse,
     error |-> "none"]

AuxIdle ==
    /\ expr = NoExprCall
    /\ cms = NoStore
    /\ sse = NoServer
    /\ mig = NoMigration
    /\ poll = NoPoll

(***************************************************************************)
(* The initial state: sync has not been called yet; its arguments are      *)
(* chosen.                                                                 *)
(***************************************************************************)
Init ==
    /\ platforms \in { [k \in 1..n |-> k] : n \in 0..MaxPlatforms }
    /\ options \in [ concurrency : {Omitted(0)} \cup
                                   { Given(c) : c \in (0 - MaxNegConcurrency)..MaxConcurrency },
                     continueOnError : {Omitted(FALSE), Given(FALSE)},
                     onProgress : BOOLEAN ]
    /\ pc = "idle"
    /\ i = 0
    /\ chunks = << >>
    /\ batchIdx = 0
    /\ task = [status |-> "pending", results |-> << >>, completedAt |-> Undefined]
    /\ wf = [p \in PlatformId |-> Unsettled("notStarted")]
    /\ mapPromise = [p \in PlatformId |-> "none"]
    /\ progress = [p \in PlatformId |-> << >>]
    /\ overtaken = FALSE
    /\ cancelRequested = FALSE
    /\ tasks = << >>
    /\ RunIdle
    /\ LibIdle
    /\ AuxIdle

(***************************************************************************)
(* sync, lines 49-68: the task is created and chunk() is entered.          *)
(***************************************************************************)
SyncCall ==
    /\ pc = "idle"
    /\ task' = [status |-> "running", results |-> << >>, completedAt |-> Undefined]
    /\ i' = 0
    /\ chunks' = << >>
    /\ pc' = "chunking"
    /\ UNCHANGED <<platforms, options, batchIdx, wf, mapPromise, progress, overtaken, cancelRequested>>
    /\ UNCHANGED <<tasks, runVars, libVars, auxVars>>

\* chunk, lines 172-174: one iteration of the loop
ChunkStep ==
    /\ pc = "chunking"
    /\ ChunkLoopCond(platforms, i)
    /\ Len(chunks) < ChunkCap
    /\ chunks' = Append(chunks, ChunkSlice(platforms, i, Concurrency))
    /\ i' = i + Concurrency
    /\ UNCHANGED <<platforms, options, pc, batchIdx, task, wf, mapPromise, progress, overtaken,
                   cancelRequested>>
    /\ UNCHANGED <<tasks, runVars, libVars, auxVars>>

(***************************************************************************)
(* sync, lines 87-93: the loop is over; the task is finished and returned. *)
(***************************************************************************)
Finish(results, wf1, mp1) ==
    /\ pc' = "returned"
    /\ task' = [status |-> FinalStatus(results), results |-> results,
                completedAt |-> "timestamp"]
    /\ wf' = wf1
    /\ mapPromise' = mp1
    /\ UNCHANGED batchIdx

(***************************************************************************)
(* sync, lines 70-77: the for loop reaches batch b with `results` pushed   *)
(* so far.  If there is a batch b, batch.map calls syncToPlatform for      *)
(* every platform of it (each runs up to its await of adapterRegistry.get) *)
(* and sync awaits Promise.all; otherwise the loop is over.                *)
(***************************************************************************)
EnterBatch(b, results, wf1, mp1) ==
    IF b <= Len(chunks)
    THEN LET batch == chunks[b]
             inBatch == { batch[j] : j \in 1..Len(batch) }
         IN /\ batchIdx' = b
            /\ pc' = "awaitBatch"
            /\ task' = [task EXCEPT !.results = results]
            /\ wf' = [p \in PlatformId |->
                        IF p \in inBatch THEN Unsettled("registryGet")
                        ELSE wf1[p]]
            /\ mapPromise' = [p \in PlatformId |->
                                IF p \in inBatch THEN "pending" ELSE mp1[p]]
    ELSE Finish(results, wf1, mp1)

\* chunk returns (line 175) and sync's for loop starts (line 70)
ChunkReturn ==
    /\ pc = "chunking"
    /\ ~ChunkLoopCond(platforms, i)
    /\ EnterBatch(1, task.results, wf, mapPromise)
    /\ UNCHANGED <<platforms, options, i, chunks, progress, overtaken, cancelRequested>>
    /\ UNCHANGED <<tasks, runVars, libVars, auxVars>>


\* Promise.all hands the values over last to first
PromiseAllValuesReversed(batch, wfs) ==
    [j \in 1..Len(batch) |-> wfs[batch[Len(batch) + 1 - j]].result]

\* lines 71-77: the array Promise.all resolves to holds the values in the
\* order of the promises it was given, that is of the batch
PromiseAllValues(batch, wfs) == [j \in 1..Len(batch) |-> wfs[batch[j]].result]

\* the batch's results are put in front of the earlier ones
PushResultsInFront(results, batchResults) == batchResults \o results

\* line 79: task.results.push(...batchResults)
PushResults(results, batchResults) == results \o batchResults

\* the callback is not called from inside the map callback
CallbackProgressMissing(out) == << >>

\* lines 73-75: the calls of onProgress made by the map callback once
\* syncToPlatform has settled with `out` (none when the await threw)
CallbackProgress(out) ==
    IF out.kind = "return" /\ options.onProgress THEN << out.result >> ELSE << >>

(***************************************************************************)
(* The turn in which syncToPlatform(article, p) settles with `out`:        *)
(*   lines 73-75  the map callback resumes, calls onProgress, returns;     *)
(*   lines 71-77  Promise.all settles when its last promise fulfils, or    *)
(*                at once when one rejects;                                *)
(*   lines 79-93  sync resumes: pushes the batch's results, decides to     *)
(*                stop or to go on, or lands in its catch block.           *)
(* cause: what made syncToPlatform settle; cbThrows: the onProgress        *)
(* callback throws in this call.                                           *)
(***************************************************************************)
Settle(p, out, cause, cbThrows) ==
    LET calls == CallbackProgress(out)
        rejected == out.kind = "throw" \/ (calls # << >> /\ cbThrows)
        wf1 == [wf EXCEPT ![p] = [pc |-> IF out.kind = "return" THEN "done" ELSE "rejected",
                                  result |-> out.result, cause |-> cause]]
        mp1 == [mapPromise EXCEPT ![p] = IF rejected THEN "rejected" ELSE "fulfilled"]
        batch == chunks[batchIdx]
        allFulfilled == \A j \in 1..Len(batch) : mp1[batch[j]] = "fulfilled"
        batchResults == PromiseAllValues(batch, wf1)
        results1 == PushResults(task.results, batchResults)
        caught == SyncCatch(task)
    IN /\ progress' = [progress EXCEPT ![p] = @ \o calls]
       /\ overtaken' = (overtaken \/ \E j, k \in 1..Len(batch) :
                                         /\ j < k
                                         /\ batch[k] = p
                                         /\ wf[batch[j]].pc \notin {"done", "rejected"})
       /\ IF pc # "awaitBatch"
          THEN \* sync is over already (an earlier rejection): nobody awaits
               /\ wf' = wf1
               /\ mapPromise' = mp1
               /\ UNCHANGED <<pc, task, batchIdx>>
          ELSE IF rejected
          THEN \* Promise.all rejects; the await throws inside sync's try
               /\ wf' = wf1
               /\ mapPromise' = mp1
               /\ IF caught.outcome = "caught"
                  THEN /\ pc' = "returned"
                       /\ task' = [task EXCEPT !.status = caught.status,
                                               !.completedAt = "timestamp"]
                  ELSE /\ pc' = "rejected"
                       /\ task' = task
               /\ UNCHANGED batchIdx
          ELSE IF allFulfilled
          THEN IF ShouldStop(batchResults)
               THEN Finish(results1, wf1, mp1)
               ELSE EnterBatch(batchIdx + 1, results1, wf1, mp1)
          ELSE /\ wf' = wf1
               /\ mapPromise' = mp1
               /\ UNCHANGED <<pc, task, batchIdx>>

CallbackMayThrow == IF options.onProgress THEN BOOLEAN ELSE {FALSE}

(***************************************************************************)
(* syncToPlatform, line 101: adapterRegistry.get(platformId) settles.      *)
(***************************************************************************)
RegistryGetSettles(p) ==
    /\ wf[p].pc = "registryGet"
    /\ \E got \in RegistryOutcomes :
         CASE got = "adapter" ->
                \* line 113: adapter.checkAuth() is called and awaited
                /\ wf' = [wf EXCEPT ![p].pc = "checkAuth"]
                /\ UNCHANGED <<pc, task, batchIdx, mapPromise, progress, overtaken>>
           [] got = "undefined" ->
                \E cb \in CallbackMayThrow : Settle(p, Returned(NotFoundResult(p)), "unknown id", cb)
           [] got = "throws" ->
                \E cb \in CallbackMayThrow :
                    Settle(p, SyncToPlatformCatch(p, "registry failed"), "registry threw", cb)
    /\ UNCHANGED <<platforms, options, i, chunks, cancelRequested>>
    /\ UNCHANGED <<tasks, runVars, libVars, auxVars>>

(***************************************************************************)
(* syncToPlatform, lines 113-124: adapter.checkAuth() settles.             *)
(***************************************************************************)
CheckAuthSettles(p) ==
    /\ wf[p].pc = "checkAuth"
    /\ \E auth \in AuthOutcomes :
         IF auth.kind = "throw"
         THEN \E cb \in CallbackMayThrow : Settle(p, SyncToPlatformCatch(p, auth.error.value), "checkAuth threw", cb)
         ELSE IF ~AuthPasses(auth)
         THEN \E cb \in CallbackMayThrow :
                 Settle(p, Returned(NotAuthenticatedResult(p, auth)), "not authenticated", cb)
         ELSE \* line 124: adapter.publish(article) is called and awaited
              /\ wf' = [wf EXCEPT ![p].pc = "publish"]
              /\ UNCHANGED <<pc, task, batchIdx, mapPromise, progress, overtaken>>
    /\ UNCHANGED <<platforms, options, i, chunks, cancelRequested>>
    /\ UNCHANGED <<tasks, runVars, libVars, auxVars>>

(***************************************************************************)
(* syncToPlatform, lines 124-132: adapter.publish(article) settles.        *)
(***************************************************************************)
PublishSettles(p) ==
    /\ wf[p].pc = "publish"
    /\ \E pub \in PublishOutcomes(p), cb \in CallbackMayThrow :
         IF pub.kind = "throw"
         THEN Settle(p, SyncToPlatformCatch(p, pub.error), "publish threw", cb)
         ELSE Settle(p, pub, "publish returned", cb)
    /\ UNCHANGED <<platforms, options, i, chunks, cancelRequested>>
    /\ UNCHANGED <<tasks, runVars, libVars, auxVars>>

(***************************************************************************)
(* The popup's cancel button: a CANCEL_SYNC message is sent.               *)
(***************************************************************************)
HandleCancel ==
    /\ pc = "awaitBatch"
    /\ ~cancelRequested
    /\ cancelRequested' = TRUE
    /\ UNCHANGED <<platforms, options, pc, i, chunks, batchIdx, task, wf, mapPromise,
                   progress, overtaken>>
    /\ UNCHANGED <<tasks, runVars, libVars, auxVars>>

(***************************************************************************)
(* sync is called again on the same engine, once the earlier call has      *)
(* returned and its workflows have all settled.  The earlier task stays in *)
(* the engine's map (line 63); the call makes a task of its own (lines     *)
(* 55-62).  One later call is followed, with the arguments of the first.   *)
(***************************************************************************)
\* the task of the call that has returned is emptied when sync is called
\* again
KeepTaskEmptied(earlier, t) == Append(earlier, [t EXCEPT !.results = << >>])

\* the task of the call that has returned stays as it is: sync makes a new
\* task object for every call (lines 55-62)
KeepTask(earlier, t) == Append(earlier, t)

SyncAgain ==
    /\ pc = "returned"
    /\ \A p \in PlatformId : wf[p].pc \in {"notStarted", "done"}
    /\ Len(platforms) <= MaxRepeatPlatforms
    /\ tasks = << >>
    /\ tasks' = KeepTask(tasks, task)
    /\ task' = [status |-> "running", results |-> << >>, completedAt |-> Undefined]
    /\ i' = 0
    /\ chunks' = << >>
    /\ batchIdx' = 0
    /\ pc' = "chunking"
    /\ wf' = [p \in PlatformId |-> Unsettled("notStarted")]
    /\ mapPromise' = [p \in PlatformId |-> "none"]
    /\ progress' = [p \in PlatformId |-> << >>]
    /\ overtaken' = FALSE
    /\ UNCHANGED <<platforms, options, cancelRequested>>
    /\ UNCHANGED <<runVars, libVars, auxVars>>

Next ==
    \/ SyncCall
    \/ SyncAgain
    \/ ChunkStep
    \/ ChunkReturn
    \/ \E p \in PlatformId : RegistryGetSettles(p)
    \/ \E p \in PlatformId : CheckAuthSettles(p)
    \/ \E p \in PlatformId : PublishSettles(p)
    \/ HandleCancel

Spec == Init /\ [][Next]_vars

(***************************************************************************)
(* A single run on a DSLAdapter, request by request.                       *)
(***************************************************************************)
\* the covers an article may come with
Covers == { UndefinedV, Str("https://a/c.png") }

\* the caller's article: its cover and its HTML
Article(cover) == [cover |-> cover, html |-> << "html" >>]

\* syncToPlatform calls publish(article), without options; a caller of the
\* adapter itself may pass draftOnly
RunInit ==
    /\ SyncIdle
    /\ LibIdle
    /\ AuxIdle
    /\ dsl \in AdapterDSLs
    /\ \E entry \in {"syncToPlatform", "publish"}, draftOnly \in BOOLEAN, cover \in Covers :
         /\ entry = "syncToPlatform" => ~draftOnly
         \* publish does not look at auth.check: one such endpoint is enough
         /\ entry = "publish" => dsl.auth = Endpoint(NoExpr, NoExpr, << >>)
         /\ run = [NoRun EXCEPT !.pc = "idle", !.entry = entry, !.draftOnly = draftOnly,
                                !.article = Article(cover)]

\* executeEndpoint merges what it extracted into the context itself
ContextAfterEndpointMerging(context, outcome) ==
    [context EXCEPT !.draft_id = Lookup(outcome.extracted, "draft_id")]

\* executeEndpoint, lines 303-374: the context as the call leaves it (the
\* context is read by interpolate and handed to the hooks, never assigned)
ContextAfterEndpoint(context, outcome) == context

WithContext(r, context) ==
    [r EXCEPT !.draft_id = context.draft_id, !.cover = context.cover,
              !.content = context.content]

\* the transport has answered the request the run awaits
Answer(r, resp) == [r EXCEPT !.responses = Append(@, resp)]

\* publish(article, options) is called: the runs that may follow
PublishCalled(r) == { PublishBegin(r, ct) : ct \in HookOutcomes }

\* the transport answers auth.check: checkAuth returns, syncToPlatform
\* returns its result or calls publish (lines 114-124)
AuthResponded(r) ==
    { LET auth == CheckAuth(resp)
      IN IF AuthPasses(auth)
         THEN PublishBegin(Answer(r, resp), ct)
         ELSE Settled(Answer(r, resp),
                      EngineResult(NotAuthenticatedResult(dsl.name, auth))) :
        resp \in Responses, ct \in HookOutcomes }

\* the process_images hook settles (publish, lines 163-169)
ProcessImagesSettled(r) ==
    { LET r1 == Hooked(r, "process_images", out)
      IN IF out = "threw"
         THEN PublishCatch(r1, "process_images failed")
         ELSE AfterProcessImages(Transformed(r1, "process_images"), ct) :
        out \in HookOutcomes, ct \in HookOutcomes }

\* the upload_image_by_url hook settles (publish, lines 174-187)
UploadCoverSettled(r) ==
    { AfterCover([Hooked(r, "upload_image_by_url", "returned")
                    EXCEPT !.cover = NewCover(CoverUploadResults[k])], ct) :
        k \in 1..Len(CoverUploadResults), ct \in HookOutcomes }
    \cup { AfterCover(CoverUploadCatch(Hooked(r, "upload_image_by_url", "threw")), ct) :
             ct \in HookOutcomes }

\* the transport answers create_draft (publish, lines 210-221)
CreateDraftResponded(r) ==
    { LET draftResult == ExecuteEndpoint(dsl.create_draft, resp)
          r1 == WithContext(Answer(r, resp),
                            ContextAfterEndpoint(Context(r), draftResult))
      IN IF draftResult.kind = "throw"
         THEN PublishCatch(r1, draftResult.error)
         ELSE AfterCreateDraft(StoreDraftId(r1, draftResult)) :
        resp \in Responses }

\* the transport answers update_draft (publish, lines 220-250)
UpdateDraftResponded(r) ==
    { LET updated == ExecuteEndpoint(dsl.update_draft, resp)
          r1 == WithContext(Answer(r, resp), ContextAfterEndpoint(Context(r), updated))
      IN IF updated.kind = "throw"
         THEN PublishCatch(r1, updated.error)
         ELSE AfterUpdateDraft(r1) :
        resp \in Responses }

\* the transport answers publish (publish, lines 240-255)
PublishResponded(r) ==
    { LET publishResult == ExecuteEndpoint(dsl.publish, resp)
          r1 == WithContext(Answer(r, resp),
                            ContextAfterEndpoint(Context(r), publishResult))
      IN IF publishResult.kind = "throw"
         THEN PublishCatch(r1, publishResult.error)
         ELSE Settled(r1, CreateResult(TRUE, "none",
                             Lookup(publishResult.extracted, "post_id"),
                             Lookup(publishResult.extracted, "post_url"),
                             UndefinedV)) :
        resp \in Responses }

\* syncToPlatform, lines 101-113: the registry yields the adapter and
\* checkAuth sends the auth.check request
RunStart ==
    /\ run.pc = "idle"
    /\ run.entry = "syncToPlatform"
    /\ run' = Send(run, "auth", EmptyContext)
    /\ UNCHANGED <<syncVars, dsl, libVars, auxVars>>

PublishCall ==
    /\ run.pc = "idle"
    /\ run.entry = "publish"
    /\ run' \in PublishCalled(run)
    /\ UNCHANGED <<syncVars, dsl, libVars, auxVars>>

AuthResponds ==
    /\ run.pc = "auth"
    /\ run' \in AuthResponded(run)
    /\ UNCHANGED <<syncVars, dsl, libVars, auxVars>>

ProcessImagesSettles ==
    /\ run.pc = "process_images"
    /\ run' \in ProcessImagesSettled(run)
    /\ UNCHANGED <<syncVars, dsl, libVars, auxVars>>

UploadCoverSettles ==
    /\ run.pc = "upload_image_by_url"
    /\ run' \in UploadCoverSettled(run)
    /\ UNCHANGED <<syncVars, dsl, libVars, auxVars>>

CreateDraftResponds ==
    /\ run.pc = "create_draft"
    /\ run' \in CreateDraftResponded(run)
    /\ UNCHANGED <<syncVars, dsl, libVars, auxVars>>

UpdateDraftResponds ==
    /\ run.pc = "update_draft"
    /\ run' \in UpdateDraftResponded(run)
    /\ UNCHANGED <<syncVars, dsl, libVars, auxVars>>

PublishResponds ==
    /\ run.pc = "publish"
    /\ run' \in PublishResponded(run)
    /\ UNCHANGED <<syncVars, dsl, libVars, auxVars>>

RunNext ==
    \/ RunStart
    \/ PublishCall
    \/ AuthResponds
    \/ ProcessImagesSettles
    \/ UploadCoverSettles
    \/ CreateDraftResponds
    \/ UpdateDraftResponds
    \/ PublishResponds

RunSpec == RunInit /\ [][RunNext]_vars

(***************************************************************************)
(* BaseAdapter.requestWithRetry (base.ts, lines 60-79), called on its own   *)
(* with maxRetries omitted or given.  retry.log lists, in order, the        *)
(* attempts (calls of this.request, with what they gave) and the waits      *)
(* (calls of this.delay, with their length).                                *)
(***************************************************************************)
MaxRetriesArg == 3

MaxRetriesArgs ==
    {Omitted(DefaultMaxRetries)} \cup { Given(m) : m \in 0..MaxRetriesArg }

RetryInit ==
    /\ SyncIdle
    /\ RunIdle
    /\ runs = NoRuns
    /\ loader = NoLoader
    /\ AuxIdle
    /\ retry \in { [NoRetry EXCEPT !.arg = a] : a \in MaxRetriesArgs }

AttemptEntry(got) == [kind |-> "attempt", got |-> got, ms |-> 0]
DelayEntry(ms) == [kind |-> "delay", got |-> NoAttempt, ms |-> ms]

\* line 67 and line 78: the loop test, and the throw after the loop
RetryLoop(r) ==
    IF r.i < r.maxRetries
    THEN [r EXCEPT !.pc = "request", !.log = Append(@, AttemptEntry(NoAttempt))]
    ELSE [r EXCEPT !.pc = "threw",
                   !.outcome = [kind |-> "throw", data |-> UndefinedV,
                                error |-> r.lastError]]

\* a wait follows every failed attempt, the last one included
DelayWantedAlways(r) == TRUE

\* line 72
DelayWanted(r) == r.i < r.maxRetries - 1

\* line 69: return await this.request(...)
RetryAttemptSucceeded(r, got) ==
    [r EXCEPT !.pc = "returned",
              !.outcome = [kind |-> "return", data |-> got.data,
                           error |-> Omitted("")]]

\* lines 70-75: the catch block
RetryCaught(r, got) ==
    LET r1 == [r EXCEPT !.lastError = Given(got.error)]
    IN IF DelayWanted(r1)
       THEN [r1 EXCEPT !.pc = "delay", !.log = Append(@, DelayEntry(1000 * (r1.i + 1)))]
       ELSE RetryLoop([r1 EXCEPT !.i = @ + 1])

\* the call: the default of maxRetries applies, the loop is entered
RequestWithRetryCall ==
    /\ retry.pc = "none"
    /\ retry' = RetryLoop([retry EXCEPT !.maxRetries = retry.arg.value])
    /\ UNCHANGED <<syncVars, runVars, runs, loader, auxVars>>

\* this.request settles
RetryRequestSettles ==
    /\ retry.pc = "request"
    /\ \E resp \in Responses :
         LET got == Request(resp)
             r1 == [retry EXCEPT !.log[Len(retry.log)] = AttemptEntry(got)]
         IN retry' = IF got.kind = "return" THEN RetryAttemptSucceeded(r1, got)
                     ELSE RetryCaught(r1, got)
    /\ UNCHANGED <<syncVars, runVars, runs, loader, auxVars>>

\* the timer of this.delay fires; the loop goes on with i + 1
RetryDelayElapses ==
    /\ retry.pc = "delay"
    /\ retry' = RetryLoop([retry EXCEPT !.i = @ + 1])
    /\ UNCHANGED <<syncVars, runVars, runs, loader, auxVars>>

RetryNext ==
    \/ RequestWithRetryCall
    \/ RetryRequestSettles
    \/ RetryDelayElapses

\* runtime.fetch settles and timers fire
RetrySpec == RetryInit /\ [][RetryNext]_vars /\ WF_vars(RetryNext)

(***************************************************************************)
(* Two calls of DSLAdapter.publish on one adapter, with the same article   *)
(* object: two platforms of a batch, or a run and its retry.  Each call has *)
(* its own local variables (workingArticle, context, draftId: base.ts,      *)
(* lines 146-150 and 208); the article object is the one thing both hold.   *)
(* runs.article is that object, runs.original what it was when handed over. *)
(* Every interleaving of the two calls' awaits is a behaviour; the retry is *)
(* the one where the second call starts after the first has settled.        *)
(***************************************************************************)
PairDSLs ==
    { d \in AdapterDSLs :
        /\ d.auth = Endpoint(NoExpr, NoExpr, << >>)
        /\ d.create_draft = Endpoint(NoExpr, NoExpr, << <<"draft_id", PathExpr(<<"id">>)>> >>)
        /\ d.update_draft.present
        /\ ~d.publish.present
        /\ d.draft_url_template = NoTemplate
        /\ d.html_processing
        /\ d.output_format = "markdown"
        /\ d.customLogic \in {{}, HookNames} }

PairInit ==
    /\ SyncIdle
    /\ run = NoRun
    /\ retry = NoRetry
    /\ loader = NoLoader
    /\ AuxIdle
    /\ dsl \in PairDSLs
    /\ \E cover \in Covers :
         runs = [article |-> Article(cover), original |-> Article(cover),
                 calls |-> [k \in 1..2 |->
                              [NoRun EXCEPT !.pc = "idle", !.entry = "publish",
                                            !.draftOnly = (k = 2),
                                            !.article = Article(cover)]]]

\* call k sees the article object as it is now; what a step of it does to
\* that object is seen by the other call
PairView(k) == [runs.calls[k] EXCEPT !.article = runs.article]

PairStep(k, pcv, successors) ==
    /\ runs.calls[k].pc = pcv
    /\ \E r \in successors :
         runs' = [runs EXCEPT !.article = r.article,
                              !.calls = [j \in 1..2 |->
                                           IF j = k THEN r
                                           ELSE [runs.calls[j] EXCEPT !.article = r.article]]]
    /\ UNCHANGED <<syncVars, runVars, retry, loader, auxVars>>

PairPublishCall == \E k \in 1..2 : PairStep(k, "idle", PublishCalled(PairView(k)))
PairProcessImagesSettles ==
    \E k \in 1..2 : PairStep(k, "process_images", ProcessImagesSettled(PairView(k)))
PairUploadCoverSettles ==
    \E k \in 1..2 : PairStep(k, "upload_image_by_url", UploadCoverSettled(PairView(k)))
PairCreateDraftResponds ==
    \E k \in 1..2 : PairStep(k, "create_draft", CreateDraftResponded(PairView(k)))
PairUpdateDraftResponds ==
    \E k \in 1..2 : PairStep(k, "update_draft", UpdateDraftResponded(PairView(k)))

PairNext ==
    \/ PairPublishCall
    \/ PairProcessImagesSettles
    \/ PairUploadCoverSettles
    \/ PairCreateDraftResponds
    \/ PairUpdateDraftResponds

PairSpec == PairInit /\ [][PairNext]_vars

(***************************************************************************)
(* Loading adapter definitions: parseDSL, createAdapterFromDSL and          *)
(* parseDSLFiles (part_008), loadAdapter and loadAdapters (part_007).       *)
(* A definition is given by the fields the schema looks at; a file holds    *)
(* YAML text that parses to a definition, or text that is not YAML.         *)
(***************************************************************************)
MaxBatch == 3

Capabilities ==
    {"article", "draft", "image_upload", "categories", "tags", "cover", "schedule"}
Methods == {"GET", "POST", "PUT", "PATCH", "DELETE"}

ValidDefinition(name) ==
    [name |-> name, icon |-> Given("icon.png"), homepage |-> "https://p.example",
     capabilities |-> <<"article", "draft">>, method |-> "POST"]

ItemKinds ==
    {"valid", "no icon", "bad capability", "bad method", "bad homepage", "not yaml"}

\* the item of a batch: an object for loadAdapter(s), a file for parseDSL(Files)
Item(kind, name) ==
    LET d == ValidDefinition(name)
    IN [wellFormed |-> kind # "not yaml",
        doc |-> CASE kind = "no icon" -> [d EXCEPT !.icon = Omitted("")]
                  [] kind = "bad capability" ->
                       [d EXCEPT !.capabilities = <<"article", "bogus">>]
                  [] kind = "bad method" -> [d EXCEPT !.method = "FETCH"]
                  [] kind = "bad homepage" -> [d EXCEPT !.homepage = "not a url"]
                  [] OTHER -> d]

\* z.string().url(): the text has a scheme
IsUrl(text) == \E n \in 1..Len(text) : n + 2 <= Len(text) /\ n > 1
                                       /\ SubSeq(text, n, n + 2) = "://"

\* every definition counts as valid
SchemaAcceptsAll(d) == TRUE

\* AdapterDSLSchema, part_008 lines 9-54
SchemaAccepts(d) ==
    /\ d.icon.given
    /\ IsUrl(d.homepage)
    /\ \A j \in 1..Len(d.capabilities) : d.capabilities[j] \in Capabilities
    /\ d.method \in Methods

\* parseDSL, part_008 lines 59-63
ParseDSL(content) ==
    IF content.wellFormed /\ SchemaAccepts(content.doc)
    THEN [kind |-> "return", dsl |-> content.doc]
    ELSE [kind |-> "throw", dsl |-> content.doc]

\* createAdapterFromDSL, part_008 lines 68-82: the factory holds the
\* definition
CreateAdapterFromDSL(d) == [id |-> d.name, dsl |-> d]

\* adapterRegistry.register(entry): the entry is kept under its id
Register(registry, entry) ==
    { e \in registry : e.id # entry.id } \cup {entry}

\* loadAdapter, part_007 lines 8-11
LoadAdapter(registry, d) == Register(registry, CreateAdapterFromDSL(d))

LoaderPaths == {"parseDSL", "parseDSLFiles", "loadAdapter", "loadAdapters"}

Batches(path) ==
    LET kinds == IF path \in {"parseDSL", "parseDSLFiles"} THEN ItemKinds
                 ELSE ItemKinds \ {"not yaml"}
        sizes == IF path \in {"parseDSL", "loadAdapter"} THEN 1..1 ELSE 0..MaxBatch
    IN UNION { { [k \in 1..n |-> Item(ks[k], k)] : ks \in [1..n -> kinds] } :
                 n \in sizes }

LoadInit ==
    /\ SyncIdle
    /\ RunIdle
    /\ runs = NoRuns
    /\ retry = NoRetry
    /\ AuxIdle
    /\ \E path \in LoaderPaths :
         \E batch \in Batches(path) :
            loader = [NoLoader EXCEPT !.pc = "idle", !.path = path, !.batch = batch,
                                      !.idx = 1]

\* parseDSL(yamlContent) returns the definition or throws
ParseDSLCall ==
    /\ loader.pc = "idle"
    /\ loader.path = "parseDSL"
    /\ LET got == ParseDSL(loader.batch[1])
       IN loader' = IF got.kind = "return"
                    THEN [loader EXCEPT !.pc = "returned", !.returned = << got.dsl >>]
                    ELSE [loader EXCEPT !.pc = "threw"]
    /\ UNCHANGED <<syncVars, runVars, runs, retry, auxVars>>

\* loadAdapter(dsl)
LoadAdapterCall ==
    /\ loader.pc = "idle"
    /\ loader.path = "loadAdapter"
    /\ loader' = [loader EXCEPT !.pc = "returned",
                                !.registry = LoadAdapter(@, loader.batch[1].doc)]
    /\ UNCHANGED <<syncVars, runVars, runs, retry, auxVars>>

\* loadAdapters(adapters): one turn of the loop of lines 17-23; loadAdapter
\* has nothing that throws, so the catch block is never entered
LoadAdaptersIteration ==
    /\ loader.pc = "idle"
    /\ loader.path = "loadAdapters"
    /\ loader.idx <= Len(loader.batch)
    /\ loader' = [loader EXCEPT !.idx = @ + 1,
                                !.registry = LoadAdapter(@, loader.batch[loader.idx].doc)]
    /\ UNCHANGED <<syncVars, runVars, runs, retry, auxVars>>

\* files.map(...) of parseDSLFiles, lines 90-98: one file; the catch block
\* logs and throws again, which ends map and the call
ParseDSLFilesIteration ==
    /\ loader.pc = "idle"
    /\ loader.path = "parseDSLFiles"
    /\ loader.idx <= Len(loader.batch)
    /\ LET got == ParseDSL(loader.batch[loader.idx])
       IN loader' = IF got.kind = "return"
                    THEN [loader EXCEPT !.idx = @ + 1,
                                        !.returned = Append(@, CreateAdapterFromDSL(got.dsl))]
                    ELSE [loader EXCEPT !.pc = "threw", !.returned = << >>,
                                        !.logged = Append(@, loader.idx)]
    /\ UNCHANGED <<syncVars, runVars, runs, retry, auxVars>>

\* the loop or the map is over: the call returns
BatchReturn ==
    /\ loader.pc = "idle"
    /\ loader.path \in {"loadAdapters", "parseDSLFiles"}
    /\ loader.idx > Len(loader.batch)
    /\ loader' = [loader EXCEPT !.pc = "returned"]
    /\ UNCHANGED <<syncVars, runVars, runs, retry, auxVars>>

LoadNext ==
    \/ ParseDSLCall
    \/ LoadAdapterCall
    \/ LoadAdaptersIteration
    \/ ParseDSLFilesIteration
    \/ BatchReturn

LoadSpec == LoadInit /\ [][LoadNext]_vars

(***************************************************************************)
(* The expression evaluator on the text of an expression (base.ts, lines   *)
(* 418-480): evaluateJsonPath, extractValue, parseCompareValue, with the    *)
(* regular expressions and the string methods they use.                     *)
(***************************************************************************)
Digits == {"0", "1", "2", "3", "4", "5", "6", "7", "8", "9"}
Letters ==
    {"a", "b", "c", "d", "e", "f", "g", "h", "i", "j", "k", "l", "m", "n", "o", "p",
     "q", "r", "s", "t", "u", "v", "w", "x", "y", "z",
     "A", "B", "C", "D", "E", "F", "G", "H", "I", "J", "K", "L", "M", "N", "O", "P",
     "Q", "R", "S", "T", "U", "V", "W", "X", "Y", "Z"}
\* \w, and the class [.\w] of the comparison pattern
WordChars == Letters \cup Digits \cup {"_"}
PathChars == WordChars \cup {"."}
Spaces == {" "}

CharAt(text, n) == SubSeq(text, n, n)

\* the first position from n on whose character is not in the class
RECURSIVE SkipChars(_, _, _)
SkipChars(text, n, class) ==
    IF n <= Len(text) /\ CharAt(text, n) \in class THEN SkipChars(text, n + 1, class)
    ELSE n

\* String.prototype.trim
RECURSIVE TrimEnd(_)
TrimEnd(text) ==
    IF text # "" /\ CharAt(text, Len(text)) \in Spaces
    THEN TrimEnd(SubSeq(text, 1, Len(text) - 1))
    ELSE text
Trim(text) == TrimEnd(SubSeq(text, SkipChars(text, 1, Spaces), Len(text)))

\* String.prototype.split('.')
RECURSIVE SplitFrom(_, _, _)
SplitFrom(text, n, key) ==
    IF n > Len(text) THEN << key >>
    ELSE IF CharAt(text, n) = "." THEN << key >> \o SplitFrom(text, n + 1, "")
    ELSE SplitFrom(text, n + 1, key \o CharAt(text, n))
Split(text) == SplitFrom(text, 1, "")

\* Array.prototype.join('.'): a dotted path as it is written
RECURSIVE JoinKeys(_)
JoinKeys(keys) ==
    IF Len(keys) = 1 THEN keys[1] ELSE keys[1] \o "." \o JoinKeys(Tail(keys))

StartsWithText(text, prefix) ==
    Len(text) >= Len(prefix) /\ SubSeq(text, 1, Len(prefix)) = prefix
EndsWithText(text, suffix) ==
    Len(text) >= Len(suffix)
    /\ SubSeq(text, Len(text) - Len(suffix) + 1, Len(text)) = suffix

\* line 420: path.match(/^(\$[.\w]+)\s*(!=|==)\s*(.+)$/)
ComparisonMatch(path) ==
    LET e == SkipChars(path, 2, PathChars)
        o == SkipChars(path, e, Spaces)
        v == SkipChars(path, o + 2, Spaces)
    IN IF StartsWithText(path, "$") /\ e > 2 /\ o + 1 <= Len(path)
          /\ SubSeq(path, o, o + 1) \in {"!=", "=="} /\ v <= Len(path)
       THEN [matched |-> TRUE, fieldPath |-> SubSeq(path, 1, e - 1),
             operator |-> SubSeq(path, o, o + 1),
             compareValue |-> SubSeq(path, v, Len(path))]
       ELSE [matched |-> FALSE, fieldPath |-> "", operator |-> "", compareValue |-> ""]

\* /^-?\d+$/ and /^-?\d+\.\d+$/
Unsigned(text) == IF StartsWithText(text, "-") THEN SubSeq(text, 2, Len(text)) ELSE text
IsDigits(text) == text # "" /\ SkipChars(text, 1, Digits) = Len(text) + 1
IsIntegerText(text) == IsDigits(Unsigned(text))
IsFloatText(text) ==
    LET u == Unsigned(text)
        dot == SkipChars(u, 1, Digits)
    IN /\ dot > 1
       /\ dot < Len(u)
       /\ CharAt(u, dot) = "."
       /\ IsDigits(SubSeq(u, dot + 1, Len(u)))

\* the numeral JavaScript prints for the number parseInt / parseFloat reads
RECURSIVE DropLeadingZeros(_)
DropLeadingZeros(text) ==
    IF Len(text) > 1 /\ CharAt(text, 1) = "0" THEN DropLeadingZeros(SubSeq(text, 2, Len(text)))
    ELSE text
RECURSIVE DropTrailingZeros(_)
DropTrailingZeros(text) ==
    IF text # "" /\ CharAt(text, Len(text)) = "0"
    THEN DropTrailingZeros(SubSeq(text, 1, Len(text) - 1))
    ELSE text
ParseNumber(text) ==
    LET u == Unsigned(text)
        dot == SkipChars(u, 1, Digits)
        whole == DropLeadingZeros(SubSeq(u, 1, dot - 1))
        fraction == DropTrailingZeros(SubSeq(u, dot + 1, Len(u)))
        magnitude == IF fraction = "" THEN whole ELSE whole \o "." \o fraction
    IN Num(IF StartsWithText(text, "-") /\ magnitude # "0" THEN "-" \o magnitude
           ELSE magnitude)

\* parseCompareValue, lines 452-465
ParseCompareValue(value) ==
    IF value = "null" THEN NullV
    ELSE IF value = "undefined" THEN UndefinedV
    ELSE IF value = "true" THEN Bool(TRUE)
    ELSE IF value = "false" THEN Bool(FALSE)
    ELSE IF IsIntegerText(value) \/ IsFloatText(value) THEN ParseNumber(value)
    ELSE IF \/ StartsWithText(value, "\"") /\ EndsWithText(value, "\"")
            \/ StartsWithText(value, "'") /\ EndsWithText(value, "'")
    THEN Str(SubSeq(value, 2, Len(value) - 1))
    ELSE Str(value)

\* extractValue, lines 439-447
ExtractValueOnText(path, data) ==
    GetNestedValue(data,
        Split(IF StartsWithText(path, "$.") THEN SubSeq(path, 3, Len(path))
              ELSE IF StartsWithText(path, "$") THEN SubSeq(path, 2, Len(path))
              ELSE path))

\* evaluateJsonPath, lines 418-434
EvaluateJsonPathOnText(path, data) ==
    LET m == ComparisonMatch(path)
        value == ExtractValueOnText(m.fieldPath, data)
        parsedCompareValue == ParseCompareValue(Trim(m.compareValue))
    IN IF m.matched
       THEN IF m.operator = "!=" THEN Bool(~StrictEquals(value, parsedCompareValue))
            ELSE Bool(StrictEquals(value, parsedCompareValue))
       ELSE ExtractValueOnText(path, data)

(***************************************************************************)
(* DSLAdapter.interpolate (lines 379-387) on the text of a template:        *)
(* template.replace(/\{\{([^}]+)\}\}/g, ...).                               *)
(***************************************************************************)
\* the first position from n on that holds the character
RECURSIVE SkipUntil(_, _, _)
SkipUntil(text, n, char) ==
    IF n <= Len(text) /\ CharAt(text, n) # char THEN SkipUntil(text, n + 1, char)
    ELSE n

\* lines 384-385: what a placeholder is replaced by
Replacement(path, context) ==
    LET value == GetNestedValue(context, Split(Trim(path)))
    IN IF value.t # "undefined" THEN JsString(value) ELSE ""

\* the pattern without the g flag: the first placeholder only
RECURSIVE InterpolateFirstOnly(_, _)
InterpolateFirstOnly(template, context) ==
    LET e == SkipUntil(template, 3, "}")
    IN IF template = "" THEN ""
       ELSE IF StartsWithText(template, "{{") /\ e > 3 /\ e + 1 <= Len(template)
               /\ SubSeq(template, e, e + 1) = "}}"
       THEN Replacement(SubSeq(template, 3, e - 1), context)
            \o SubSeq(template, e + 2, Len(template))
       ELSE CharAt(template, 1)
            \o InterpolateFirstOnly(SubSeq(template, 2, Len(template)), context)

\* every match of the pattern, left to right, is replaced; the rest of the
\* template is kept
RECURSIVE Interpolate(_, _)
Interpolate(template, context) ==
    LET e == SkipUntil(template, 3, "}")
    IN IF template = "" THEN ""
       ELSE IF StartsWithText(template, "{{") /\ e > 3 /\ e + 1 <= Len(template)
               /\ SubSeq(template, e, e + 1) = "}}"
       THEN Replacement(SubSeq(template, 3, e - 1), context)
            \o Interpolate(SubSeq(template, e + 2, Len(template)), context)
       ELSE CharAt(template, 1) \o Interpolate(SubSeq(template, 2, Len(template)), context)

(***************************************************************************)
(* Calls of the interpolator: a template is a run of pieces, each a plain   *)
(* text or a placeholder (a dotted path, with or without blanks around it). *)
(***************************************************************************)
MaxPieces == 2

PlaceholderPaths ==
    { <<"draft_id">>, <<"article", "title">>, <<"count">>, <<"article">>,
      <<"article", "missing">>, <<"missing", "x">>, <<"draft_id", "x">> }

Pieces ==
    { [kind |-> "text", text |-> t, keys |-> << >>, blanks |-> FALSE] :
        t \in {"https://p/", "-"} }
    \cup { [kind |-> "placeholder", text |-> "", keys |-> k, blanks |-> b] :
             k \in PlaceholderPaths, b \in BOOLEAN }

TemplateSources == UNION { [1..n -> Pieces] : n \in 0..MaxPieces }

PieceText(piece) ==
    IF piece.kind = "text" THEN piece.text
    ELSE IF piece.blanks THEN "{{ " \o JoinKeys(piece.keys) \o " }}"
    ELSE "{{" \o JoinKeys(piece.keys) \o "}}"

RECURSIVE TemplateText(_)
TemplateText(source) ==
    IF source = << >> THEN "" ELSE PieceText(Head(source)) \o TemplateText(Tail(source))

Contexts ==
    { Obj([article |-> Obj([title |-> Str("T"), cover |-> NullV]),
           draft_id |-> Str("d1"), count |-> Num("3")]),
      Obj([article |-> Obj([title |-> Str("")]), draft_id |-> UndefinedV,
           count |-> NullV]),
      Obj([article |-> NullV]) }

(***************************************************************************)
(* Calls of the evaluator: the expression is written by the author of a    *)
(* definition (a path with or without "$.", alone or compared with a        *)
(* literal), the data is an answer of a platform.                           *)
(***************************************************************************)
\* the literals, as written and as values
Literals ==
    { [text |-> "null", value |-> NullV],
      [text |-> "undefined", value |-> UndefinedV],
      [text |-> "true", value |-> Bool(TRUE)],
      [text |-> "false", value |-> Bool(FALSE)],
      [text |-> "0", value |-> Num("0")],
      [text |-> "-12", value |-> Num("-12")],
      [text |-> "1.5", value |-> Num("1.5")],
      [text |-> "\"ok\"", value |-> Str("ok")],
      [text |-> "'ok'", value |-> Str("ok")],
      [text |-> "\"0\"", value |-> Str("0")] }

NoLiteral == [text |-> "", value |-> UndefinedV]

ExprPaths ==
    { <<"code">>, <<"data", "state">>, <<"data", "ratio">>, <<"missing">>,
      <<"data", "missing", "x">>, <<"code", "x">> }

ExprData ==
    { Obj([code |-> Num("0"),
           data |-> Obj([state |-> Str("ok"), ratio |-> Num("1.5"), flag |-> Bool(TRUE)])]),
      Obj([code |-> Num("-12"), data |-> Obj([state |-> NullV, ratio |-> Str("0")])]),
      Obj([code |-> Str("0")]) }

ExprSources ==
    { [dollar |-> d, keys |-> k, op |-> "none", lit |-> NoLiteral] :
        d \in BOOLEAN, k \in ExprPaths }
    \cup { [dollar |-> d, keys |-> k, op |-> o, lit |-> l] :
             d \in BOOLEAN, k \in ExprPaths, o \in {"==", "!="}, l \in Literals }

\* the expression as it stands in the definition
ExprText(source) ==
    (IF source.dollar THEN "$." ELSE "") \o JoinKeys(source.keys)
    \o (IF source.op = "none" THEN "" ELSE " " \o source.op \o " " \o source.lit.text)

(***************************************************************************)
(* Body templates.  Next to the values above a template may hold an array  *)
(* literal and a binary value; `typeof` says 'object' of both.              *)
(***************************************************************************)
Arr(items) == [t |-> "array", v |-> items]
Blob(bytes) == [t |-> "blob", v |-> bytes]

\* typeof value === 'object' && value !== null
IsObjectType(value) == value.t \in {"object", "array", "blob"}

\* the keys of an array's own enumerable properties
IndexKeys == <<"0", "1", "2">>

\* Object.entries(obj): the keys ...
EntryKeys(obj) ==
    CASE obj.t = "array" -> { IndexKeys[j] : j \in 1..Len(obj.v) }
      [] obj.t = "blob" -> {}
      [] OTHER -> DOMAIN obj.v

\* ... and the value of each
EntryValue(obj, key) ==
    IF obj.t = "array"
    THEN obj.v[CHOOSE j \in 1..Len(obj.v) : IndexKeys[j] = key]
    ELSE obj.v[key]

\* binary values and arrays are kept as they stand, strings are rewritten
RECURSIVE InterpolateObjectKeepingShape(_, _)
InterpolateObjectKeepingShape(obj, context) ==
    LET leaf(value) ==
            IF value.t = "string" THEN Str(Interpolate(value.v, context))
            ELSE IF IsObjectType(value) THEN InterpolateObjectKeepingShape(value, context)
            ELSE value
    IN CASE obj.t = "array" -> Arr([j \in 1..Len(obj.v) |-> leaf(obj.v[j])])
         [] obj.t = "blob" -> obj
         [] OTHER -> Obj([key \in DOMAIN obj.v |-> leaf(obj.v[key])])

\* interpolateObject, lines 392-412: the result is a fresh plain object that
\* gets one property per entry of obj
RECURSIVE InterpolateObject(_, _)
InterpolateObject(obj, context) ==
    Obj([key \in EntryKeys(obj) |->
            LET value == EntryValue(obj, key)
            IN IF value.t = "string" THEN Str(Interpolate(value.v, context))
               ELSE IF IsObjectType(value) THEN InterpolateObject(value, context)
               ELSE value])

BodyTemplates ==
    << Obj([title |-> Str("{{article.title}}"), id |-> Str("{{ draft_id }}")]),
       Obj([meta |-> Obj([count |-> Num("3"), name |-> Str("a-{{count}}")]),
            cover |-> NullV, draft |-> Bool(TRUE)]),
       Obj([tags |-> Arr(<<Str("a"), Str("{{article.title}}")>>)]),
       Obj([tags |-> Arr(<< >>), title |-> Str("t")]),
       Obj([file |-> Blob("bytes"), name |-> Str("{{article.title}}")]) >>

(***************************************************************************)
(* executeEndpoint up to the transport call (lines 307-349) and            *)
(* DSLAdapter.request (lines 33-43): the request that reaches               *)
(* runtime.fetch.                                                           *)
(***************************************************************************)
UrlTemplates == { "https://p/{{draft_id}}", "https://p/" }

HeaderTemplates ==
    { [Referer |-> "https://p/"],
      [Referer |-> "https://p/{{draft_id}}", XToken |-> "{{ article.title }}"],
      [ContentType |-> "text/plain"] }

ContentTypes == {"json", "form", "multipart"}

\* customLogic: no hook, a before_request hook (the headers it returns) or a
\* prepare_body hook
CustomLogics ==
    { [before_request |-> FALSE, prepare_body |-> FALSE, dynamicHeaders |-> << >>],
      [before_request |-> TRUE, prepare_body |-> FALSE,
       dynamicHeaders |-> [Cookie |-> "c=1"]],
      [before_request |-> FALSE, prepare_body |-> TRUE, dynamicHeaders |-> << >>] }

NoBody == [kind |-> "undefined"]

EndpointRequests ==
    { [method |-> "POST", url |-> u, headers |-> h, body |-> b, content_type |-> c,
       customLogic |-> l] :
        u \in UrlTemplates, h \in HeaderTemplates, b \in 0..Len(BodyTemplates),
        c \in ContentTypes, l \in CustomLogics }

\* { ...a, ...b }
Spread(a, b) ==
    [name \in DOMAIN a \cup DOMAIN b |-> IF name \in DOMAIN b THEN b[name] ELSE a[name]]

\* lines 311-330; the JSON text is held as the value it is the text of
RequestBody(request, context) ==
    IF request.body = 0 THEN NoBody
    ELSE LET bodyData == InterpolateObject(BodyTemplates[request.body], context)
         IN CASE request.content_type = "multipart" ->
                   [kind |-> "FormData",
                    parts |-> [key \in DOMAIN bodyData.v |->
                                 IF bodyData.v[key].t = "blob"
                                 THEN [binary |-> TRUE, value |-> bodyData.v[key].v]
                                 ELSE [binary |-> FALSE,
                                       value |-> JsString(bodyData.v[key])]]]
              [] request.content_type = "form" ->
                   [kind |-> "URLSearchParams",
                    fields |-> [key \in DOMAIN bodyData.v |-> JsString(bodyData.v[key])]]
              [] OTHER -> [kind |-> "JSON", value |-> bodyData]

\* lines 333-337
RequestHeaders(request) ==
    IF request.customLogic.before_request
    THEN Spread(request.headers, request.customLogic.dynamicHeaders)
    ELSE request.headers

\* lines 307-349 and 37-43: what runtime.fetch is called with
TransportRequest(request, context) ==
    LET url == Interpolate(request.url, context)
        body == RequestBody(request, context)
    IN [url |-> url,
        method |-> request.method,
        headers |-> Spread([ContentType |-> "application/json"], RequestHeaders(request)),
        body |-> IF body.kind # "undefined" /\ request.customLogic.prepare_body
                 THEN [kind |-> "prepared", from |-> body]
                 ELSE body]

ExprInit ==
    /\ SyncIdle
    /\ RunIdle
    /\ LibIdle
    /\ cms = NoStore
    /\ sse = NoServer
    /\ mig = NoMigration
    /\ poll = NoPoll
    /\ \/ \E source \in ExprSources, data \in ExprData :
            expr = [NoExprCall EXCEPT !.pc = "idle", !.fn = "evaluateJsonPath",
                                      !.source = source, !.text = ExprText(source),
                                      !.data = data]
       \/ \E source \in TemplateSources, context \in Contexts :
            expr = [NoExprCall EXCEPT !.pc = "idle", !.fn = "interpolate",
                                      !.source = source, !.text = TemplateText(source),
                                      !.data = context]
       \/ \E n \in 1..Len(BodyTemplates), context \in Contexts :
            expr = [NoExprCall EXCEPT !.pc = "idle", !.fn = "interpolateObject",
                                      !.source = BodyTemplates[n], !.data = context]
       \/ \E request \in EndpointRequests, context \in Contexts :
            expr = [NoExprCall EXCEPT !.pc = "idle", !.fn = "executeEndpoint",
                                      !.source = request, !.text = request.url,
                                      !.data = context]

ExprUnchanged == UNCHANGED <<syncVars, runVars, libVars, cms, sse, mig, poll>>

EvaluateJsonPathCall ==
    /\ expr.pc = "idle"
    /\ expr.fn = "evaluateJsonPath"
    /\ expr' = [expr EXCEPT !.pc = "returned",
                            !.out = EvaluateJsonPathOnText(expr.text, expr.data)]
    /\ ExprUnchanged

InterpolateCall ==
    /\ expr.pc = "idle"
    /\ expr.fn = "interpolate"
    /\ expr' = [expr EXCEPT !.pc = "returned",
                            !.out = Str(Interpolate(expr.text, expr.data))]
    /\ ExprUnchanged

InterpolateObjectCall ==
    /\ expr.pc = "idle"
    /\ expr.fn = "interpolateObject"
    /\ expr' = [expr EXCEPT !.pc = "returned",
                            !.out = InterpolateObject(expr.source, expr.data)]
    /\ ExprUnchanged

\* executeEndpoint reaches its transport call
ExecuteEndpointRequest ==
    /\ expr.pc = "idle"
    /\ expr.fn = "executeEndpoint"
    /\ expr' = [expr EXCEPT !.pc = "sent",
                            !.out = TransportRequest(expr.source, expr.data)]
    /\ ExprUnchanged

ExprNext ==
    \/ EvaluateJsonPathCall
    \/ InterpolateCall
    \/ InterpolateObjectCall
    \/ ExecuteEndpointRequest

ExprSpec == ExprInit /\ [][ExprNext]_vars

(***************************************************************************)
(* The CMS store (useCMSStore): the accounts held in memory, the           *)
(* cmsAccounts and cms_pwd_<id> entries of chrome.storage.local, and the   *)
(* calls of addAccount, removeAccount and testConnection.  A call runs up  *)
(* to its next await in one step; a storage write takes effect in the step *)
(* in which its await returns.                                             *)
(***************************************************************************)
MaxStoreCalls == 3

\* the account loaded from an earlier session, if there is one
LoadedAccount == [id |-> 0, isConnected |-> TRUE, lastError |-> "undefined"]

AccountIds(accounts) == { accounts[j].id : j \in 1..Len(accounts) }

\* accounts.filter(a => a.id !== id)
RECURSIVE WithoutAccount(_, _)
WithoutAccount(accounts, id) ==
    IF accounts = << >> THEN << >>
    ELSE IF Head(accounts).id = id THEN WithoutAccount(Tail(accounts), id)
    ELSE <<Head(accounts)>> \o WithoutAccount(Tail(accounts), id)

\* accounts.map(a => a.id === id ? { ...a, isConnected, lastError } : a)
WithConnection(accounts, id, result) ==
    [j \in 1..Len(accounts) |->
        IF accounts[j].id = id
        THEN [accounts[j] EXCEPT !.isConnected = result.success, !.lastError = result.error]
        ELSE accounts[j]]

\* the answers to TEST_CMS_CONNECTION
TestResults ==
    { [success |-> TRUE, error |-> "undefined"],
      [success |-> FALSE, error |-> "connection failed"] }

StoreCall(kind, id, at, accounts) ==
    [kind |-> kind, id |-> id, pc |-> at, accounts |-> accounts,
     updatedAccounts |-> << >>, success |-> FALSE]

CmsInit ==
    /\ SyncIdle
    /\ RunIdle
    /\ LibIdle
    /\ expr = NoExprCall
    /\ sse = NoServer
    /\ mig = NoMigration
    /\ poll = NoPoll
    /\ \/ cms = NoStore
       \/ cms = [NoStore EXCEPT !.accounts = <<LoadedAccount>>,
                                !.cmsAccounts = <<LoadedAccount>>,
                                !.cms_pwd = {0}]

CmsUnchanged == UNCHANGED <<syncVars, runVars, libVars, expr, sse, mig, poll>>

\* a call settles: its pc and whether it went through
CallSettled(k, success) ==
    [cms.calls EXCEPT ![k].pc = "returned", ![k].success = success]

\* addAccount, lines 46-68: up to the await of the connection test
AddAccountCall ==
    /\ Len(cms.calls) < MaxStoreCalls
    /\ cms' = [cms EXCEPT
                 !.calls = Append(@, StoreCall("addAccount", cms.now, "testing",
                                               cms.accounts)),
                 !.now = @ + 1]
    /\ CmsUnchanged

\* lines 70-78: the test answers; on success the accounts are written
AddAccountTested(k) ==
    /\ k <= Len(cms.calls)
    /\ cms.calls[k].kind = "addAccount"
    /\ cms.calls[k].pc = "testing"
    /\ \E testResult \in TestResults :
         cms' = [cms EXCEPT
                   !.calls =
                      IF ~testResult.success THEN CallSettled(k, FALSE)
                      ELSE [@ EXCEPT
                              ![k].pc = "savingAccounts",
                              ![k].updatedAccounts =
                                 Append(cms.calls[k].accounts,
                                        [id |-> cms.calls[k].id, isConnected |-> TRUE,
                                         lastError |-> "undefined"])]]
    /\ CmsUnchanged

\* line 78 returns, line 81 is issued
AddAccountSaved(k) ==
    /\ k <= Len(cms.calls)
    /\ cms.calls[k].kind = "addAccount"
    /\ cms.calls[k].pc = "savingAccounts"
    /\ cms' = [cms EXCEPT !.cmsAccounts = cms.calls[k].updatedAccounts,
                          !.calls[k].pc = "savingPassword"]
    /\ CmsUnchanged

\* line 81 returns; lines 83-84
AddAccountPasswordSaved(k) ==
    /\ k <= Len(cms.calls)
    /\ cms.calls[k].kind = "addAccount"
    /\ cms.calls[k].pc = "savingPassword"
    /\ cms' = [cms EXCEPT !.cms_pwd = @ \cup {cms.calls[k].id},
                          !.accounts = cms.calls[k].updatedAccounts,
                          !.calls = CallSettled(k, TRUE),
                          !.added = @ \cup {cms.calls[k].id}]
    /\ CmsUnchanged

\* the ids a caller can name: those it has seen in the store
KnownIds == AccountIds(cms.accounts) \cup cms.added \cup cms.cms_pwd

\* removeAccount, lines 91-94: up to the await of the write
RemoveAccountCall(id) ==
    /\ id \in KnownIds
    /\ Len(cms.calls) < MaxStoreCalls
    /\ cms' = [cms EXCEPT
                 !.calls = Append(@, [StoreCall("removeAccount", id, "savingAccounts",
                                                cms.accounts)
                                        EXCEPT !.updatedAccounts =
                                                  WithoutAccount(cms.accounts, id)]),
                 !.removeCalled = @ \cup {id}]
    /\ CmsUnchanged

\* line 94 returns, line 95 is issued
RemoveAccountSaved(k) ==
    /\ k <= Len(cms.calls)
    /\ cms.calls[k].kind = "removeAccount"
    /\ cms.calls[k].pc = "savingAccounts"
    /\ cms' = [cms EXCEPT !.cmsAccounts = cms.calls[k].updatedAccounts,
                          !.calls[k].pc = "removingPassword"]
    /\ CmsUnchanged

\* line 95 returns; line 96
RemoveAccountPasswordRemoved(k) ==
    /\ k <= Len(cms.calls)
    /\ cms.calls[k].kind = "removeAccount"
    /\ cms.calls[k].pc = "removingPassword"
    /\ cms' = [cms EXCEPT !.cms_pwd = @ \ {cms.calls[k].id},
                          !.accounts = cms.calls[k].updatedAccounts,
                          !.calls = CallSettled(k, TRUE),
                          !.removed = @ \cup {cms.calls[k].id}]
    /\ CmsUnchanged

\* testConnection, lines 103-110: up to the await of the password
TestConnectionCall(id) ==
    /\ id \in KnownIds
    /\ Len(cms.calls) < MaxStoreCalls
    /\ cms' = [cms EXCEPT
                 !.calls = Append(@, StoreCall("testConnection", id,
                                               IF id \in AccountIds(cms.accounts)
                                               THEN "readingPassword" ELSE "returned",
                                               cms.accounts))]
    /\ CmsUnchanged

\* line 110 returns, lines 113-121 send the test
TestConnectionPasswordRead(k) ==
    /\ k <= Len(cms.calls)
    /\ cms.calls[k].kind = "testConnection"
    /\ cms.calls[k].pc = "readingPassword"
    /\ cms' = [cms EXCEPT !.calls[k].pc = "testing"]
    /\ CmsUnchanged

\* the test answers; lines 124-129
TestConnectionTested(k) ==
    /\ k <= Len(cms.calls)
    /\ cms.calls[k].kind = "testConnection"
    /\ cms.calls[k].pc = "testing"
    /\ \E result \in TestResults :
         cms' = [cms EXCEPT
                   !.calls[k].pc = "savingAccounts",
                   !.calls[k].success = result.success,
                   !.calls[k].updatedAccounts =
                      WithConnection(cms.calls[k].accounts, cms.calls[k].id, result)]
    /\ CmsUnchanged

\* line 129 returns; lines 130-132
TestConnectionSaved(k) ==
    /\ k <= Len(cms.calls)
    /\ cms.calls[k].kind = "testConnection"
    /\ cms.calls[k].pc = "savingAccounts"
    /\ cms' = [cms EXCEPT !.cmsAccounts = cms.calls[k].updatedAccounts,
                          !.accounts = cms.calls[k].updatedAccounts,
                          !.calls[k].pc = "returned"]
    /\ CmsUnchanged

\* an awaited chrome call rejects: the catch of lines 86, 97 and 133
ChromeCallRejects(k) ==
    /\ k <= Len(cms.calls)
    /\ cms.calls[k].pc # "returned"
    /\ cms' = [cms EXCEPT !.calls = CallSettled(k, FALSE)]
    /\ CmsUnchanged

CmsNext ==
    \/ AddAccountCall
    \/ \E id \in 0..MaxStoreCalls : RemoveAccountCall(id)
    \/ \E id \in 0..MaxStoreCalls : TestConnectionCall(id)
    \/ \E k \in 1..MaxStoreCalls : AddAccountTested(k)
    \/ \E k \in 1..MaxStoreCalls : AddAccountSaved(k)
    \/ \E k \in 1..MaxStoreCalls : AddAccountPasswordSaved(k)
    \/ \E k \in 1..MaxStoreCalls : RemoveAccountSaved(k)
    \/ \E k \in 1..MaxStoreCalls : RemoveAccountPasswordRemoved(k)
    \/ \E k \in 1..MaxStoreCalls : TestConnectionPasswordRead(k)
    \/ \E k \in 1..MaxStoreCalls : TestConnectionTested(k)
    \/ \E k \in 1..MaxStoreCalls : TestConnectionSaved(k)
    \/ \E k \in 1..MaxStoreCalls : ChromeCallRejects(k)

CmsSpec == CmsInit /\ [][CmsNext]_vars

(***************************************************************************)
(* The HTTP routes of the MCP server (setupHttpRoutes): this.transport,    *)
(* the SSE connections that are open, and the POSTs to /message.  A        *)
(* connection is named by its number; transport 0 is null.                 *)
(***************************************************************************)
MaxConnections == 4

SseInit ==
    /\ SyncIdle
    /\ RunIdle
    /\ LibIdle
    /\ expr = NoExprCall
    /\ cms = NoStore
    /\ mig = NoMigration
    /\ poll = NoPoll
    /\ sse = NoServer

SseUnchanged == UNCHANGED <<syncVars, runVars, libVars, expr, cms, mig, poll>>

\* GET /sse, lines 49-59: the transport of the new connection is installed
GetSse ==
    /\ sse.connections < MaxConnections
    /\ sse' = [sse EXCEPT !.connections = @ + 1,
                          !.transport = sse.connections + 1,
                          !.open = @ \cup {sse.connections + 1}]
    /\ SseUnchanged

\* res.on('close'), lines 53-56, of connection c
SseClose(c) ==
    /\ c \in sse.open
    /\ sse' = [sse EXCEPT !.open = @ \ {c}, !.transport = 0]
    /\ SseUnchanged

\* POST /message, lines 62-68
PostMessage ==
    /\ sse' = [sse EXCEPT !.lastPost =
                 IF sse.transport # 0
                 THEN [answer |-> "handled", transport |-> sse.transport, open |-> sse.open]
                 ELSE [answer |-> "400", transport |-> 0, open |-> sse.open]]
    /\ SseUnchanged

SseNext ==
    \/ GetSse
    \/ \E c \in 1..MaxConnections : SseClose(c)
    \/ PostMessage

SseSpec == SseInit /\ [][SseNext]_vars

(***************************************************************************)
(* checkAndMigrate: the v2_migration_done flag, cmsAccounts and the        *)
(* cms_pwd_<id> entries of chrome.storage.local, the old accounts of       *)
(* localStorage (by their urls), and the invocations.  An invocation runs  *)
(* up to its next await in one step; a storage write takes effect in the   *)
(* step in which its await returns.                                        *)
(***************************************************************************)
MaxInvocations == 3

OldUrls == <<"https://a", "https://b">>

AccountUrls(accounts) == { accounts[j].url : j \in 1..Len(accounts) }

\* lines 250-275: the old accounts whose url is not among the existing ones,
\* each with an id of its own
RECURSIVE MigratedAccounts(_, _, _)
MigratedAccounts(oldAccounts, existingAccounts, ids) ==
    IF oldAccounts = << >> THEN << >>
    ELSE IF Head(oldAccounts) \in AccountUrls(existingAccounts)
    THEN MigratedAccounts(Tail(oldAccounts), existingAccounts, ids)
    ELSE <<[id |-> ids + 1, url |-> Head(oldAccounts)]>>
         \o MigratedAccounts(Tail(oldAccounts), existingAccounts, ids + 1)

Invocation(at) ==
    [pc |-> at, existingAccounts |-> << >>, migratedAccounts |-> << >>,
     marked |-> FALSE]

MigInit ==
    /\ SyncIdle
    /\ RunIdle
    /\ LibIdle
    /\ expr = NoExprCall
    /\ cms = NoStore
    /\ sse = NoServer
    /\ poll = NoPoll
    /\ \E n \in 0..Len(OldUrls), done \in BOOLEAN, existing \in BOOLEAN :
         mig = [NoMigration EXCEPT
                  !.oldAccounts = SubSeq(OldUrls, 1, n),
                  !.v2_migration_done = done,
                  !.cmsAccounts = IF existing THEN <<[id |-> 0, url |-> OldUrls[1]]>>
                                  ELSE << >>,
                  !.cms_pwd = IF existing THEN {0} ELSE {},
                  !.added = [j \in 1..Len(OldUrls) |-> 0]]

MigUnchanged == UNCHANGED <<syncVars, runVars, libVars, expr, cms, sse, poll>>

\* lines 217-220: up to the await of the flag
CheckAndMigrateCall ==
    /\ Len(mig.invocations) < MaxInvocations
    /\ mig' = [mig EXCEPT !.invocations = Append(@, Invocation("readingFlag"))]
    /\ MigUnchanged

\* lines 220-243: the flag is read, then localStorage
MigrationFlagRead(k) ==
    /\ k <= Len(mig.invocations)
    /\ mig.invocations[k].pc = "readingFlag"
    /\ mig' = [mig EXCEPT !.invocations[k].pc =
                 IF mig.v2_migration_done THEN "skipped"
                 ELSE IF mig.oldAccounts = << >> THEN "marking"
                 ELSE "readingAccounts"]
    /\ MigUnchanged

\* lines 243-287: cmsAccounts is read, the accounts to add are computed
MigrationAccountsRead(k) ==
    /\ k <= Len(mig.invocations)
    /\ mig.invocations[k].pc = "readingAccounts"
    /\ LET migratedAccounts ==
               MigratedAccounts(mig.oldAccounts, mig.cmsAccounts, mig.ids)
       IN mig' = [mig EXCEPT
                    !.invocations[k].existingAccounts = mig.cmsAccounts,
                    !.invocations[k].migratedAccounts = migratedAccounts,
                    !.invocations[k].pc =
                       IF migratedAccounts = << >> THEN "marking" ELSE "saving",
                    !.ids = @ + Len(migratedAccounts)]
    /\ MigUnchanged

\* lines 284-290: the write of cmsAccounts and of the passwords returns
MigrationSaved(k) ==
    /\ k <= Len(mig.invocations)
    /\ mig.invocations[k].pc = "saving"
    /\ LET migratedAccounts == mig.invocations[k].migratedAccounts
           allAccounts == mig.invocations[k].existingAccounts \o migratedAccounts
       IN mig' = [mig EXCEPT
                    !.cmsAccounts = allAccounts,
                    !.cms_pwd = @ \cup { migratedAccounts[j].id :
                                           j \in 1..Len(migratedAccounts) },
                    !.invocations[k].pc = "marking",
                    !.added = [j \in 1..Len(OldUrls) |->
                                 IF OldUrls[j] \in AccountUrls(migratedAccounts)
                                 THEN @[j] + 1 ELSE @[j]],
                    !.modifiedAfterDone =
                       @ \/ (mig.v2_migration_done /\ allAccounts # mig.cmsAccounts)]
    /\ MigUnchanged

\* markMigrationDone, lines 304-307: the write of the flag returns
MarkMigrationDone(k) ==
    /\ k <= Len(mig.invocations)
    /\ mig.invocations[k].pc = "marking"
    /\ mig' = [mig EXCEPT !.v2_migration_done = TRUE,
                          !.invocations[k].pc = "returned",
                          !.invocations[k].marked = TRUE]
    /\ MigUnchanged

\* an awaited storage call rejects: the catch of lines 298-301
MigrationFails(k) ==
    /\ k <= Len(mig.invocations)
    /\ mig.invocations[k].pc \in {"readingFlag", "readingAccounts", "saving", "marking"}
    /\ mig' = [mig EXCEPT !.invocations[k].pc = "failed"]
    /\ MigUnchanged

MigNext ==
    \/ CheckAndMigrateCall
    \/ \E k \in 1..MaxInvocations : MigrationFlagRead(k)
    \/ \E k \in 1..MaxInvocations : MigrationAccountsRead(k)
    \/ \E k \in 1..MaxInvocations : MigrationSaved(k)
    \/ \E k \in 1..MaxInvocations : MarkMigrationDone(k)
    \/ \E k \in 1..MaxInvocations : MigrationFails(k)

MigSpec == MigInit /\ [][MigNext]_vars

(***************************************************************************)
(* WeiboAdapter.waitForImageDone: the polling of the image status.  It is  *)
(* called by uploadImageByUrl after getUserConfig has given a uid, so the  *)
(* user configuration is the cached one.                                   *)
(***************************************************************************)
maxAttempts == 30

\* what the status endpoint answers: data[0] with a task_status_code, or no
\* data
PollResponses ==
    { [given |-> TRUE, task_status_code |-> c] : c \in 0..2 } \cup {NoPollResponse}

\* res.data?.[0]?.task_status_code !== undefined
ReportsAnyStatus(res) == res.given

\* line 507: res.data?.[0]?.task_status_code === 1
ReportsDone(res) == res.given /\ res.task_status_code = 1

PollInit ==
    /\ SyncIdle
    /\ RunIdle
    /\ LibIdle
    /\ expr = NoExprCall
    /\ cms = NoStore
    /\ sse = NoServer
    /\ mig = NoMigration
    /\ poll = [NoPoll EXCEPT !.pc = "idle"]

PollUnchanged == UNCHANGED <<syncVars, runVars, libVars, expr, cms, sse, mig>>

\* line 487 and line 516: the loop test with i, then the request of lines
\* 488-501 or the throw after the loop
PollLoop(s) ==
    IF s.i < maxAttempts
    THEN [s EXCEPT !.pc = "fetching", !.polls = @ + 1]
    ELSE [s EXCEPT !.pc = "threw", !.error = "upload timeout"]

\* lines 479-487: the cached configuration, i = 0
WaitForImageDoneCall ==
    /\ poll.pc = "idle"
    /\ poll' = PollLoop([poll EXCEPT !.i = 0])
    /\ PollUnchanged

\* lines 503-513: the request returns and its body is read
PollReturns ==
    /\ poll.pc = "fetching"
    /\ \E res \in PollResponses :
         poll' = [poll EXCEPT !.last = res,
                              !.pc = IF ReportsDone(res) THEN "returned" ELSE "delaying"]
    /\ PollUnchanged

\* runtime.fetch or response.json() rejects: the error leaves the call
PollRejects ==
    /\ poll.pc = "fetching"
    /\ poll' = [poll EXCEPT !.pc = "threw", !.error = "request failed",
                            !.last = NoPollResponse]
    /\ PollUnchanged

\* line 513 returns; i++
PollDelayElapses ==
    /\ poll.pc = "delaying"
    /\ poll' = PollLoop([poll EXCEPT !.i = @ + 1, !.delays = @ + 1])
    /\ PollUnchanged

PollNext ==
    \/ WaitForImageDoneCall
    \/ PollReturns
    \/ PollRejects
    \/ PollDelayElapses

\* runtime.fetch settles and timers fire
PollSpec == PollInit /\ [][PollNext]_vars /\ WF_vars(PollNext)

(***************************************************************************)
(* Vocabulary of the properties.                                           *)
(***************************************************************************)
InFlightPcs == {"registryGet", "checkAuth", "publish"}

\* the platforms whose syncToPlatform call has started and has no result yet
InFlight == { p \in PlatformId : wf[p].pc \in InFlightPcs }

\* the platforms of batch b
InBatch(b) == { chunks[b][j] : j \in 1..Len(chunks[b]) }

ResultPlatforms == { task.results[j].platform : j \in 1..Len(task.results) }

AllSucceeded(results) == \A j \in 1..Len(results) : results[j].success

(***************************************************************************)
(* C1.  With concurrency c >= 1 (3 when the option is omitted), at every   *)
(* moment at most c syncToPlatform calls have started and not yet          *)
(* produced their result.                                                  *)
(***************************************************************************)
C1_BoundedInFlight ==
    LET c == IF options.concurrency.given THEN options.concurrency.value ELSE 3
    IN c >= 1 => Cardinality(InFlight) <= c

\* the default bound is met and holds a fourth platform back
C1_Witness ==
    /\ ~options.concurrency.given
    /\ Cardinality(InFlight) = 3
    /\ Len(platforms) > 3
    /\ wf[4].pc = "notStarted"

(***************************************************************************)
(* C2.  syncToPlatform never rejects: an unknown platform id and an error  *)
(* raised by the registry lookup, by checkAuth or by publish each end in a *)
(* result for that platform with success = false and an error message;     *)
(* every result a platform produces is its own, whatever happened to the   *)
(* other platforms.                                                        *)
(***************************************************************************)
C2_SyncToPlatformNeverRejects ==
    \A p \in PlatformId :
        /\ wf[p].pc # "rejected"
        /\ wf[p].cause \in {"unknown id", "registry threw", "checkAuth threw", "publish threw"}
             => /\ wf[p].pc = "done"
                /\ wf[p].result.platform = p
                /\ ~wf[p].result.success
                /\ wf[p].result.error \notin {"none", "", "no result"}
        /\ wf[p].pc = "done" => wf[p].result.platform = p

\* platform 1's publish threw; platform 2, of the same batch, succeeded
C2_Witness ==
    /\ Len(chunks) >= 1 /\ {1, 2} \subseteq InBatch(1)
    /\ wf[1].cause = "publish threw" /\ wf[1].pc = "done"
    /\ wf[2].pc = "done" /\ wf[2].result.success /\ wf[2].result.platform = 2

(***************************************************************************)
(* C3.  When sync returns, task.status is "completed" if and only if every *)
(* result of task.results has success = true, and "failed" otherwise.      *)
(***************************************************************************)
C3_StatusIffAllSucceeded ==
    pc = "returned" =>
        /\ task.status \in {"completed", "failed"}
        /\ task.status = "completed" <=> AllSucceeded(task.results)

(***************************************************************************)
(* C4.  With continueOnError = false, once a result of a batch has         *)
(* success = false no platform of a later batch is ever started, and no    *)
(* result of such a platform is in task.results.                           *)
(***************************************************************************)
C4_NoLaterBatchAfterFailure ==
    ~ContinueOnError =>
        \A b \in 1..Len(chunks) : \A p \in InBatch(b) :
            (wf[p].pc = "done" /\ ~wf[p].result.success) =>
                \A b2 \in (b + 1)..Len(chunks) : \A q \in InBatch(b2) :
                    /\ wf[q].pc = "notStarted"
                    /\ q \notin ResultPlatforms

\* sync stopped after a first batch holding a failure; a second batch exists
C4_Witness ==
    /\ ~ContinueOnError
    /\ pc = "returned"
    /\ Len(chunks) >= 2
    /\ Len(task.results) = Len(chunks[1])
    /\ ~task.results[1].success
    /\ wf[chunks[2][1]].pc = "notStarted"

(***************************************************************************)
(* C5.  onProgress is called exactly once for every platform whose         *)
(* workflow has completed, with that platform's own result, and in the     *)
(* very turn in which the result becomes known (no state has a result      *)
(* without its call), so also while others of the batch are in flight.     *)
(***************************************************************************)
C5_ProgressOncePerResult ==
    options.onProgress =>
        \A p \in PlatformId :
            /\ Len(progress[p]) <= 1
            /\ wf[p].pc = "done" <=> Len(progress[p]) = 1
            /\ Len(progress[p]) = 1 =>
                   /\ progress[p][1] = wf[p].result
                   /\ progress[p][1].platform = p

\* platform 1 has been reported while platform 2 of its batch is in flight
C5_Witness ==
    /\ options.onProgress
    /\ pc = "awaitBatch" /\ batchIdx = 1 /\ {1, 2} \subseteq InBatch(1)
    /\ Len(progress[1]) = 1
    /\ wf[2].pc \in InFlightPcs

(***************************************************************************)
(* C6.  With continueOnError = true, when sync returns task.results holds  *)
(* exactly one result for every entry of platforms.                        *)
(***************************************************************************)
C6_OneResultPerPlatform ==
    (pc = "returned" /\ ContinueOnError) =>
        /\ Len(task.results) = Len(platforms)
        /\ \A k \in 1..Len(platforms) :
              Cardinality({ j \in 1..Len(task.results) :
                              task.results[j].platform = platforms[k] }) = 1

(***************************************************************************)
(* C7.  sync terminates and returns its task for every platform list and   *)
(* every integer concurrency: as long as it has not returned, some step    *)
(* of it can still be taken (and every step taken moves it forward).       *)
(***************************************************************************)
C7_SyncTerminates == pc = "returned" \/ ENABLED Next

(***************************************************************************)
(* C8.  sync never rejects, whatever the adapters and the onProgress       *)
(* callback do; the task it returns has status "completed" or "failed"     *)
(* and its completedAt is set.                                             *)
(***************************************************************************)
C8_SyncNeverRejects ==
    /\ pc # "rejected"
    /\ pc = "returned" =>
          /\ task.status \in {"completed", "failed"}
          /\ task.completedAt # Undefined

\* sync returned through its catch block: a callback had thrown
C8_Witness ==
    /\ pc = "returned"
    /\ \E p \in PlatformId : mapPromise[p] = "rejected"
    /\ task.status = "failed"

(***************************************************************************)
(* C9.  Once cancellation has been requested: a workflow that is in flight *)
(* starts no further step when its pending call settles and ends with a   *)
(* Cancelled result; no platform of a later batch is started; the result   *)
(* of a platform that had completed is unchanged.                          *)
(***************************************************************************)
C9_CancelStopsWorkflows ==
    [][ cancelRequested =>
          \A p \in PlatformId :
              /\ (wf[p].pc \in InFlightPcs /\ wf'[p] # wf[p]) =>
                     (wf'[p].pc = "done" /\ wf'[p].result.error = "Cancelled")
              /\ wf[p].pc = "notStarted" => wf'[p].pc = "notStarted"
              /\ wf[p].pc = "done" => wf'[p] = wf[p] ]_vars

(***************************************************************************)
(* C10.  If the authentication check of a platform fails (the transport    *)
(* fails or answers a non-2xx status, or the success predicate of          *)
(* auth.check rejects the answer), the platform's result has success =     *)
(* false and an error that names the authentication failure, and no        *)
(* create_draft, update_draft or publish request is sent in that run.      *)
(***************************************************************************)
StartsWith(text, prefix) ==
    Len(text) >= Len(prefix) /\ SubSeq(text, 1, Len(prefix)) = prefix

AuthCheckFailed ==
    /\ Len(run.responses) >= 1
    /\ run.requests[1].endpoint = "auth"
    /\ LET resp == run.responses[1]
       IN \/ resp.kind = "network error"
          \/ ~resp.ok
          \/ /\ HasExpr(dsl.auth.success)
             /\ ~Truthy(EvaluateJsonPath(dsl.auth.success, resp.body))

C10_AuthFailureStopsRun ==
    AuthCheckFailed =>
        /\ run.pc = "done"
        /\ run.result.platform = dsl.name
        /\ ~run.result.success
        /\ StartsWith(run.result.error, "Not authenticated: ")
        /\ Len(run.result.error) > Len("Not authenticated: ")
        /\ Len(run.requests) = 1
        /\ Len(run.responses) = 1

\* the transport answered auth.check with 401; the definition has a
\* create_draft endpoint, which was not sent
C10_Witness ==
    /\ AuthCheckFailed
    /\ run.responses[1].status = "401"
    /\ dsl.create_draft.present
    /\ run.pc = "done"
    /\ run.result.error = "Not authenticated: HTTP 401: Unauthorized"

(***************************************************************************)
(* Vocabulary of the properties of a run.                                  *)
(***************************************************************************)
\* the endpoint has been sent to the transport in this run
Sent(name) == \E j \in 1..Len(run.requests) : run.requests[j].endpoint = name

EndpointOf(name) ==
    CASE name = "auth" -> dsl.auth
      [] name = "create_draft" -> dsl.create_draft
      [] name = "update_draft" -> dsl.update_draft
      [] name = "publish" -> dsl.publish

\* what executeEndpoint made of the j-th answer of the transport
Answered(j) == ExecuteEndpoint(EndpointOf(run.requests[j].endpoint), run.responses[j])

EveryEndpointSucceeded ==
    \A j \in 1..Len(run.responses) : Answered(j).kind = "return"

HookThrew(name) ==
    \E j \in 1..Len(run.hooks) : run.hooks[j] = [name |-> name, outcome |-> "threw"]

\* the text with every occurrence of the pattern replaced
RECURSIVE SubstituteAll(_, _, _)
SubstituteAll(text, pattern, value) ==
    IF Len(text) < Len(pattern) THEN text
    ELSE IF SubSeq(text, 1, Len(pattern)) = pattern
    THEN value \o SubstituteAll(SubSeq(text, Len(pattern) + 1, Len(text)), pattern, value)
    ELSE SubSeq(text, 1, 1) \o SubstituteAll(SubSeq(text, 2, Len(text)), pattern, value)

\* the draft URL template with the run's draft_id substituted
ExpectedDraftUrl ==
    Str(SubstituteAll(dsl.draft_url_template, DraftIdPlaceholder, JsString(run.draft_id)))

HasDraftUrl == dsl.draft_url_template # NoTemplate /\ Truthy(run.draft_id)

(***************************************************************************)
(* C11.  Whenever a run ends successfully without having sent the publish  *)
(* endpoint (in particular when the definition has none), its result has   *)
(* draftOnly = true whatever the caller's draftOnly option was, and        *)
(* postUrl is the draft URL template with draft_id substituted.            *)
(***************************************************************************)
C11_NoPublishMeansDraftOnly ==
    (run.pc = "done" /\ run.result.success /\ ~Sent("publish")) =>
        /\ run.result.draftOnly = Bool(TRUE)
        /\ HasDraftUrl => run.result.postUrl = ExpectedDraftUrl

(***************************************************************************)
(* C12.  If the caller requested draftOnly, the publish endpoint is never  *)
(* sent in that run; when no step before it failed the run ends after the  *)
(* draft steps with success = true and draftOnly = true and, when          *)
(* create_draft produced a draft_id and a draft URL template is defined,   *)
(* with postUrl equal to the template with draft_id substituted.           *)
(***************************************************************************)
C12_DraftOnlyNeverPublishes ==
    run.draftOnly =>
        /\ ~Sent("publish")
        /\ run.pc # "publish"
        /\ (run.pc = "done" /\ EveryEndpointSucceeded
              /\ ~HookThrew("process_images") /\ ~HookThrew("content_transform")) =>
                /\ run.result.success
                /\ run.result.draftOnly = Bool(TRUE)
                /\ run.result.postId = run.draft_id
                /\ HasDraftUrl => run.result.postUrl = ExpectedDraftUrl

\* a draft-only run on a definition that has a publish endpoint: the draft
\* was created and updated, and the result carries the edit address
C12_Witness ==
    /\ run.draftOnly
    /\ run.pc = "done"
    /\ dsl.publish.present
    /\ Sent("create_draft") /\ Sent("update_draft")
    /\ run.result.success
    /\ run.result.postUrl = Str("https://p/edit/d1/form")

(***************************************************************************)
(* C13.  Within one run the endpoint steps are strictly sequential: a      *)
(* request is built and sent only when every earlier request has been      *)
(* answered, in the order create_draft, update_draft, publish; and the     *)
(* draft_id that update_draft and publish are built with is exactly the    *)
(* one extracted from the answer to create_draft in the same run.          *)
(***************************************************************************)
StepRank(name) ==
    CASE name = "auth" -> 0
      [] name = "create_draft" -> 1
      [] name = "update_draft" -> 2
      [] name = "publish" -> 3

C13_StepsSequential ==
    /\ Len(run.requests) - Len(run.responses)
         = IF run.pc \in {"auth", "create_draft", "update_draft", "publish"} THEN 1 ELSE 0
    /\ \A j, k \in 1..Len(run.requests) :
          j < k => StepRank(run.requests[j].endpoint) < StepRank(run.requests[k].endpoint)
    /\ \A k \in 1..Len(run.requests) :
          run.requests[k].endpoint \in {"update_draft", "publish"} =>
             IF Sent("create_draft")
             THEN \E j \in 1..(k - 1) :
                     /\ run.requests[j].endpoint = "create_draft"
                     /\ j <= Len(run.responses)
                     /\ Answered(j).kind = "return"
                     /\ run.requests[k].context.draft_id
                          = Lookup(Answered(j).extracted, "draft_id")
             ELSE run.requests[k].context.draft_id = UndefinedV
    /\ Sent("update_draft") => Sent("create_draft")

\* create_draft, update_draft and publish have been sent in turn, the last
\* two with the draft_id "d1" that create_draft's answer held
C13_Witness ==
    /\ run.pc = "publish"
    /\ Len(run.requests) >= 3
    /\ LET n == Len(run.requests)
       IN /\ run.requests[n - 2].endpoint = "create_draft"
          /\ run.requests[n - 1].endpoint = "update_draft"
          /\ run.requests[n - 1].context.draft_id = Str("d1")
          /\ run.requests[n].context.draft_id = Str("d1")

(***************************************************************************)
(* C14.  If the cover-upload hook throws, the run does not fail because of *)
(* it: the working article's cover becomes the empty string, the run goes  *)
(* on to the remaining transforms and to draft creation, and its result is *)
(* decided by the later steps alone.                                       *)
(***************************************************************************)
C14_CoverFailureDegrades ==
    HookThrew("upload_image_by_url") =>
        /\ run.cover = Str("")
        /\ \A j \in 1..Len(run.requests) :
              run.requests[j].endpoint # "auth" => run.requests[j].context.cover = Str("")
        /\ ("content_transform" \in dsl.customLogic) =>
              \E j \in 1..Len(run.hooks) : run.hooks[j].name = "content_transform"
        /\ (dsl.create_draft.present /\ ~HookThrew("content_transform")) =>
              Sent("create_draft")
        /\ run.pc = "done" =>
              (run.result.success <=>
                  (EveryEndpointSucceeded /\ ~HookThrew("content_transform")))

\* the cover upload threw and the run has still ended in success, with a
\* draft created
C14_Witness ==
    /\ HookThrew("upload_image_by_url")
    /\ run.pc = "done"
    /\ run.result.success
    /\ Sent("create_draft")
    /\ run.cover = Str("")

(***************************************************************************)
(* C15.  Whatever subset of create_draft, update_draft and publish a       *)
(* definition lacks, the run skips the absent steps (none of them is       *)
(* sent) and never fails for their absence: if every endpoint that was     *)
(* sent succeeded (and no hook aborted the run), the result has            *)
(* success = true.                                                         *)
(***************************************************************************)
C15_AbsentEndpointsSkipped ==
    /\ \A j \in 1..Len(run.requests) : EndpointOf(run.requests[j].endpoint).present
    /\ (run.pc = "done" /\ EveryEndpointSucceeded
          /\ ~HookThrew("process_images") /\ ~HookThrew("content_transform")) =>
            run.result.success

\* a definition with none of the three endpoints: the run has ended in
\* success without a request after the authentication check
C15_Witness ==
    /\ ~dsl.create_draft.present /\ ~dsl.update_draft.present /\ ~dsl.publish.present
    /\ run.pc = "done"
    /\ run.result.success
    /\ run.entry = "syncToPlatform"
    /\ Len(run.requests) = 1

(***************************************************************************)
(* C16.  With continueOnError = false a failing platform neither cancels   *)
(* nor drops the other platforms of its batch: when sync has returned,     *)
(* every platform of a batch that holds a failure has run its workflow to  *)
(* completion and has its result in task.results.                          *)
(***************************************************************************)
C16_FailingBatchCompletes ==
    (~ContinueOnError /\ pc = "returned") =>
        \A b \in 1..Len(chunks) :
            (\E p \in InBatch(b) : wf[p].pc = "done" /\ ~wf[p].result.success) =>
                \A q \in InBatch(b) :
                    /\ wf[q].pc = "done"
                    /\ \E j \in 1..Len(task.results) : task.results[j] = wf[q].result

(***************************************************************************)
(* C17.  With concurrency c >= 1 the batches are the consecutive slices of *)
(* size c of platforms in input order (the last one possibly shorter), and *)
(* no platform of batch k+1 starts its workflow before every platform of   *)
(* batch k has produced its result.                                        *)
(***************************************************************************)
C17_BatchesInOrder ==
    Concurrency >= 1 =>
        /\ \A b \in 1..Len(chunks) :
              /\ Len(chunks[b]) = Min(Concurrency, Len(platforms) - (b - 1) * Concurrency)
              /\ \A j \in 1..Len(chunks[b]) :
                    chunks[b][j] = platforms[(b - 1) * Concurrency + j]
        /\ pc \in {"awaitBatch", "returned"} =>
              /\ Len(chunks) * Concurrency >= Len(platforms)
              /\ (Len(chunks) - 1) * Concurrency < Len(platforms)
        /\ \A b \in 1..(Len(chunks) - 1) : \A q \in InBatch(b + 1) :
              wf[q].pc # "notStarted" => \A p \in InBatch(b) : wf[p].pc = "done"

\* three platforms, two at a time: the second, shorter batch is in flight
\* and the first has its results
C17_Witness ==
    /\ Concurrency = 2
    /\ chunks = << <<1, 2>>, <<3>> >>
    /\ pc = "awaitBatch" /\ batchIdx = 2
    /\ wf[3].pc \in InFlightPcs
    /\ wf[1].pc = "done" /\ wf[2].pc = "done"

(***************************************************************************)
(* C18.  With concurrency = 1 the order of task.results is the input order *)
(* of platforms: results[j] is the result of platforms[j] for every j up   *)
(* to the number of results.                                               *)
(***************************************************************************)
C18_SequentialOrder ==
    Concurrency = 1 =>
        /\ Len(task.results) <= Len(platforms)
        /\ \A j \in 1..Len(task.results) :
              /\ task.results[j].platform = platforms[j]
              /\ task.results[j] = wf[platforms[j]].result

\* one at a time: sync has returned three results, a failure among them
C18_Witness ==
    /\ Concurrency = 1
    /\ pc = "returned"
    /\ Len(task.results) >= 3
    /\ ~task.results[2].success
    /\ task.results[3].success

(***************************************************************************)
(* C19.  If an endpoint has a success predicate and the predicate is false *)
(* on the parsed answer, executeEndpoint fails with the message that the   *)
(* endpoint's error path gives on that answer ("Request failed" when the   *)
(* endpoint has no error path); nothing is extracted and the run sends no  *)
(* later endpoint.                                                         *)
(***************************************************************************)
PredicateFalse(j) ==
    LET endpoint == EndpointOf(run.requests[j].endpoint)
        resp == run.responses[j]
    IN /\ resp.kind = "http" /\ resp.ok
       /\ HasExpr(endpoint.success)
       /\ EvaluateJsonPath(endpoint.success, resp.body) = Bool(FALSE)

ExpectedMessage(j) ==
    LET endpoint == EndpointOf(run.requests[j].endpoint)
        body == run.responses[j].body
    IN IF endpoint.error = NoExpr THEN "Request failed"
       ELSE IF "msg" \in DOMAIN body.v THEN body.v.msg.v ELSE "undefined"

C19_RejectedEndpointFails ==
    \A j \in 1..Len(run.responses) :
        PredicateFalse(j) =>
            /\ Answered(j).kind = "throw"
            /\ Answered(j).error = ExpectedMessage(j)
            /\ Answered(j).extracted = << >>
            /\ j = Len(run.requests)
            /\ run.pc = "done"
            /\ ~run.result.success
            /\ run.result.error
                 = IF run.requests[j].endpoint = "auth"
                   THEN "Not authenticated: " \o ExpectedMessage(j)
                   ELSE ExpectedMessage(j)
            /\ run.requests[j].endpoint = "create_draft" => run.draft_id = UndefinedV

\* create_draft was answered {code: 1, msg: "denied"}: the run has ended
\* with that message although update_draft and publish are defined
C19_Witness ==
    /\ Len(run.responses) >= 1
    /\ LET j == Len(run.responses)
       IN /\ run.requests[j].endpoint = "create_draft"
          /\ PredicateFalse(j)
          /\ run.responses[j].body = Obj([code |-> Num("1"), msg |-> Str("denied")])
    /\ dsl.create_draft.error # NoExpr
    /\ dsl.update_draft.present /\ dsl.publish.present
    /\ run.pc = "done"
    /\ run.result.error = "denied"

(***************************************************************************)
(* C20.  For an endpoint without a success predicate, a 2xx answer of the  *)
(* transport makes executeEndpoint succeed whatever the body holds: the    *)
(* body is returned, the fields are extracted and the run goes on.         *)
(***************************************************************************)
NoPredicateAndOk(j) ==
    /\ ~HasExpr(EndpointOf(run.requests[j].endpoint).success)
    /\ run.responses[j].kind = "http"
    /\ run.responses[j].ok

TransportFailed(j) ==
    run.responses[j].kind = "network error" \/ ~run.responses[j].ok

TransportMessage(j) ==
    IF run.responses[j].kind = "network error" THEN "Failed to fetch"
    ELSE "HTTP " \o run.responses[j].status \o ": " \o run.responses[j].statusText

C21_TransportErrorFirst ==
    \A j \in 1..Len(run.responses) :
        TransportFailed(j) =>
            /\ Answered(j).kind = "throw"
            /\ Answered(j).error = TransportMessage(j)
            /\ Answered(j).extracted = << >>
            /\ j = Len(run.requests)
            /\ run.pc = "done"
            /\ ~run.result.success
            /\ run.result.error
                 = IF run.requests[j].endpoint = "auth"
                   THEN "Not authenticated: " \o TransportMessage(j)
                   ELSE TransportMessage(j)
            /\ run.requests[j].endpoint = "create_draft" => run.draft_id = UndefinedV

\* create_draft has a success predicate and was answered 401 with a body
\* that the predicate would accept: the run has ended with the HTTP error
C21_Witness ==
    /\ Len(run.responses) >= 1
    /\ LET j == Len(run.responses)
       IN /\ run.requests[j].endpoint = "create_draft"
          /\ run.responses[j].status = "401"
          /\ HasExpr(dsl.create_draft.success)
          /\ Truthy(EvaluateJsonPath(dsl.create_draft.success, run.responses[j].body))
    /\ run.pc = "done"
    /\ run.result.error = "HTTP 401: Unauthorized"

(***************************************************************************)
(* C22.  Within one run each of auth.check, create_draft, update_draft and *)
(* publish is sent to the transport at most once: an endpoint that was     *)
(* rejected or whose transport call failed is not sent again; the run ends *)
(* with it.                                                                *)
(***************************************************************************)
C22_EndpointSentOnce ==
    /\ \A j, k \in 1..Len(run.requests) :
          j # k => run.requests[j].endpoint # run.requests[k].endpoint
    /\ \A j \in 1..Len(run.responses) :
          Answered(j).kind = "throw" => (j = Len(run.requests) /\ run.pc = "done")

\* update_draft's transport call failed after a draft was created: the run
\* is over and has sent each of the three endpoints once
C22_Witness ==
    /\ run.pc = "done"
    /\ Len(run.requests) = 3
    /\ run.requests[1].endpoint = "auth"
    /\ run.requests[2].endpoint = "create_draft"
    /\ run.requests[3].endpoint = "update_draft"
    /\ run.responses[3].kind = "network error"
    /\ dsl.publish.present

(***************************************************************************)
(* C23: requestWithRetry is a bounded retry.  It makes at most maxRetries   *)
(* attempts (3 when maxRetries is omitted); an attempt that succeeds is the *)
(* last thing it does and its response is what is returned; every failed    *)
(* attempt but the last allowed one is followed by a wait, and no wait      *)
(* follows the last one; after maxRetries failures it throws the error of   *)
(* the last attempt; and it always ends, by returning or by throwing.       *)
(***************************************************************************)
Attempts == { j \in 1..Len(retry.log) : retry.log[j].kind = "attempt" }
Delays == { j \in 1..Len(retry.log) : retry.log[j].kind = "delay" }
AttemptsAllowed == IF retry.maxRetries > 0 THEN retry.maxRetries ELSE 0
AttemptsBefore(j) == Cardinality({ k \in Attempts : k < j })
RetryEnded == retry.pc \in {"returned", "threw"}

C23_Safety ==
    /\ retry.pc # "none" =>
         retry.maxRetries = (IF retry.arg.given THEN retry.arg.value ELSE 3)
    /\ Cardinality(Attempts) <= AttemptsAllowed
    \* an attempt that succeeded ends the call with its response
    /\ \A j \in Attempts :
         retry.log[j].got.kind = "return" =>
            /\ j = Len(retry.log)
            /\ retry.pc = "returned"
            /\ retry.outcome.kind = "return"
            /\ retry.outcome.data = retry.log[j].got.data
    /\ retry.pc = "returned" =>
         /\ retry.log # << >>
         /\ retry.log[Len(retry.log)].got.kind = "return"
    \* a failed attempt is followed by a wait, unless it was the last allowed
    /\ \A j \in Attempts :
         retry.log[j].got.kind = "throw" =>
            IF AttemptsBefore(j) + 1 < AttemptsAllowed
            THEN /\ j < Len(retry.log)
                 /\ retry.log[j + 1].kind = "delay"
                 /\ retry.log[j + 1].ms > 0
            ELSE j = Len(retry.log) /\ retry.pc = "threw"
    \* a wait only follows a failed attempt, and an attempt follows it
    /\ \A j \in Delays :
         /\ j > 1
         /\ retry.log[j - 1].kind = "attempt"
         /\ retry.log[j - 1].got.kind = "throw"
         /\ j < Len(retry.log) => retry.log[j + 1].kind = "attempt"
         /\ j = Len(retry.log) => retry.pc = "delay"
    \* it throws after maxRetries failures, the error of the last one
    /\ retry.pc = "threw" =>
         /\ Cardinality(Attempts) = AttemptsAllowed
         /\ \A j \in Attempts : retry.log[j].got.kind = "throw"
         /\ retry.outcome.kind = "throw"
         /\ Attempts # {} =>
              retry.outcome.error = Given(retry.log[Len(retry.log)].got.error)

C23_BoundedRetry == []C23_Safety /\ <>RetryEnded

\* three failed attempts with maxRetries omitted, the last one with another
\* error than the first
C23_Witness ==
    /\ ~retry.arg.given
    /\ retry.pc = "threw"
    /\ Cardinality(Attempts) = 3
    /\ Cardinality(Delays) = 2
    /\ retry.log[1].got.error = "Failed to fetch"
    /\ retry.outcome.error = Given("HTTP 401: Unauthorized")

(***************************************************************************)
(* C24: publish runs are isolated.  The article object handed to the calls  *)
(* is never modified; every request of a call is built from a context that  *)
(* holds the article's content transformed by that call alone (each         *)
(* transform once), a cover that is the article's unless the call's own     *)
(* cover upload replaced or cleared it, and a draft_id that is undefined    *)
(* until the call's own create_draft answer gave one.                       *)
(***************************************************************************)
Occurrences(seq, x) == Cardinality({ j \in 1..Len(seq) : seq[j] = x })

\* the draft_id that call r extracted from its own create_draft answer
OwnDraftId(r, j) ==
    Lookup(ExecuteEndpoint(dsl.create_draft, r.responses[j]).extracted, "draft_id")

IsolatedContext(r, j) ==
    LET context == r.requests[j].context
    IN /\ context.content # << >>
       /\ SubSeq(context.content, 1, Len(runs.original.html)) = runs.original.html
       /\ \A name \in {"processHtml", "process_images", "content_transform",
                        "htmlToMarkdown"} :
            Occurrences(context.content, name) <= 1
       /\ Occurrences(context.content, "process_images") =
            Cardinality({ h \in 1..Len(r.hooks) :
                            r.hooks[h] = [name |-> "process_images",
                                          outcome |-> "returned"] })
       /\ context.cover # runs.original.cover =>
            \E h \in 1..Len(r.hooks) : r.hooks[h].name = "upload_image_by_url"
       /\ IF r.requests[j].endpoint = "create_draft"
          THEN j = 1 /\ context.draft_id = UndefinedV
          ELSE /\ j > 1
               /\ r.requests[1].endpoint = "create_draft"
               /\ context.draft_id = OwnDraftId(r, 1)

C24_RunsIsolated ==
    /\ runs.article = runs.original
    /\ \A k \in 1..Len(runs.calls) :
         /\ runs.calls[k].article = runs.original
         /\ \A j \in 1..Len(runs.calls[k].requests) :
              IsolatedContext(runs.calls[k], j)

\* the first call has gone through its transforms, has replaced its cover
\* and holds a draft id; the second call starts after that and its
\* create_draft request carries the article's own cover, no draft id and
\* content transformed once
C24_Witness ==
    /\ Len(runs.calls) = 2
    /\ runs.calls[1].pc = "done"
    /\ runs.calls[1].draft_id = Str("d1")
    /\ runs.calls[1].cover = Str("https://cdn/c.png")
    /\ Len(runs.calls[1].requests) = 2
    /\ runs.calls[2].pc = "create_draft"
    /\ Len(runs.calls[2].hooks) = 3
    /\ runs.calls[2].hooks[2].outcome = "threw"
    /\ runs.calls[2].requests[1].context.cover = Str("")
    /\ runs.calls[2].requests[1].context.draft_id = UndefinedV
    /\ runs.original.cover = Str("https://a/c.png")

(***************************************************************************)
(* C25: no definition is registered, or returned as loaded, without having  *)
(* passed structural validation: every definition in the registry and every *)
(* definition or entry a loader returned has its required fields, only      *)
(* capabilities of the closed enum, a method of {GET, POST, PUT, PATCH,     *)
(* DELETE} and a well-formed homepage.                                      *)
(***************************************************************************)
StructurallyValid(d) ==
    /\ d.icon.given
    /\ \A j \in 1..Len(d.capabilities) :
         d.capabilities[j] \in {"article", "draft", "image_upload", "categories",
                                "tags", "cover", "schedule"}
    /\ d.method \in {"GET", "POST", "PUT", "PATCH", "DELETE"}
    /\ d.homepage = "https://p.example"

C25_OnlyValidatedRegistered ==
    /\ \A e \in loader.registry : StructurallyValid(e.dsl)
    /\ loader.path = "parseDSL" =>
         \A j \in 1..Len(loader.returned) : StructurallyValid(loader.returned[j])
    /\ loader.path = "parseDSLFiles" =>
         \A j \in 1..Len(loader.returned) : StructurallyValid(loader.returned[j].dsl)

(***************************************************************************)
(* C26: batch loading is best-effort per item: once a batch call            *)
(* (loadAdapters, parseDSLFiles) has ended, every valid definition of the   *)
(* batch is loaded (registered by loadAdapters, among the entries           *)
(* parseDSLFiles hands back), whatever the other items of the batch are.    *)
(***************************************************************************)
ValidItem(item) == item.wellFormed /\ StructurallyValid(item.doc)

Loaded(name) ==
    \/ \E e \in loader.registry : e.id = name
    \/ \E j \in 1..Len(loader.returned) : loader.returned[j].id = name

C26_BatchBestEffort ==
    (loader.path \in {"loadAdapters", "parseDSLFiles"}
       /\ loader.pc \in {"returned", "threw"}) =>
        \A k \in 1..Len(loader.batch) :
            ValidItem(loader.batch[k]) => Loaded(loader.batch[k].doc.name)

(***************************************************************************)
(* C27: the transforms of a publish run are applied in the order HTML       *)
(* preprocessing, image-upload hook, cover upload, content_transform hook,  *)
(* format conversion.  The content is the article's HTML with the present   *)
(* transforms applied on top of each other in that order, the absent ones   *)
(* skipped; each hook is called when the earlier present steps are done and *)
(* no later one is; and every request from create_draft on is built when    *)
(* all of them are done.                                                    *)
(***************************************************************************)
ContentSteps == << "processHtml", "process_images", "content_transform", "htmlToMarkdown" >>

StepPresent(name) ==
    CASE name = "processHtml" -> dsl.html_processing
      [] name = "htmlToMarkdown" -> dsl.output_format = "markdown"
      [] OTHER -> name \in dsl.customLogic

\* the article's HTML after the present ones of the first n content steps
ContentAfter(n) ==
    run.article.html \o
    SelectSeq(SubSeq(ContentSteps, 1, n), LAMBDA name : StepPresent(name))

HookRank(name) ==
    CASE name = "process_images" -> 2
      [] name = "upload_image_by_url" -> 3
      [] name = "content_transform" -> 4

CoverUploadDue ==
    /\ run.article.cover.t = "string"
    /\ run.article.cover.v # ""
    /\ "upload_image_by_url" \in dsl.customLogic

C27_TransformOrder ==
    \* the content is always the output of a prefix of the present steps
    /\ run.content # << >> => \E n \in 0..Len(ContentSteps) : run.content = ContentAfter(n)
    \* the hooks are called in order, each at most once
    /\ \A j, k \in 1..Len(run.hooks) :
         j < k => HookRank(run.hooks[j].name) < HookRank(run.hooks[k].name)
    \* the image-upload hook is given the output of the preprocessing
    /\ run.pc = "process_images" => run.content = ContentAfter(1) /\ run.hooks = << >>
    \* the cover is uploaded after the image-upload hook, before the rest
    /\ run.pc = "upload_image_by_url" =>
         /\ run.content = ContentAfter(2)
         /\ \A j \in 1..Len(run.hooks) : run.hooks[j].name = "process_images"
    \* content_transform is called with the content as the earlier steps
    \* left it, once the cover is dealt with; its output is what is converted
    /\ \A j \in 1..Len(run.hooks) :
         run.hooks[j].name = "content_transform" =>
            /\ CoverUploadDue => j > 1 /\ run.hooks[j - 1].name = "upload_image_by_url"
            /\ "process_images" \in dsl.customLogic => run.hooks[1].name = "process_images"
            /\ run.content = IF run.hooks[j].outcome = "threw" THEN ContentAfter(2)
                              ELSE ContentAfter(4)
    \* every request from create_draft on carries the fully transformed
    \* content, and the cover upload is over by then
    /\ \A j \in 1..Len(run.requests) :
         run.requests[j].endpoint # "auth" =>
            /\ run.requests[j].context.content = ContentAfter(4)
            /\ \A name \in dsl.customLogic :
                 (name = "upload_image_by_url" => CoverUploadDue) =>
                    \E h \in 1..Len(run.hooks) : run.hooks[h].name = name

\* a definition with every transform, an article with a cover: the
\* create_draft request carries the content after all four content steps
\* and the three hooks have run in turn
C27_Witness ==
    /\ dsl.html_processing
    /\ dsl.output_format = "markdown"
    /\ dsl.customLogic = HookNames
    /\ run.pc = "create_draft"
    /\ Len(run.hooks) = 3
    /\ run.hooks[2].name = "upload_image_by_url"
    /\ run.requests[Len(run.requests)].context.content =
         << "html", "processHtml", "process_images", "content_transform",
            "htmlToMarkdown" >>

(***************************************************************************)
(* C29: executeEndpoint does not change the context it is given.  After    *)
(* every answered request of publish, whether executeEndpoint returned or   *)
(* threw, the context is what the request was built from; the one entry     *)
(* that differs is draft_id after a create_draft that returned, which the   *)
(* caller sets to the value executeEndpoint handed back.                    *)
(***************************************************************************)
\* the context as the run holds it once the j-th request has been answered
ContextAfterAnswer(j) ==
    IF j < Len(run.requests) THEN run.requests[j + 1].context ELSE Context(run)

C29_ContextNotMutated ==
    \A j \in 1..Len(run.responses) :
        run.requests[j].endpoint # "auth" =>
            LET before == run.requests[j].context
                after == ContextAfterAnswer(j)
                merged == run.requests[j].endpoint = "create_draft"
                          /\ Answered(j).kind = "return"
            IN /\ after.cover = before.cover
               /\ after.content = before.content
               /\ after.draft_id = IF merged
                                    THEN Lookup(Answered(j).extracted, "draft_id")
                                    ELSE before.draft_id

\* update_draft, which extracts nothing, has returned and the publish
\* request that follows still carries the draft id
C29_Witness ==
    /\ run.pc = "publish"
    /\ Len(run.requests) >= 3
    /\ LET n == Len(run.requests)
       IN /\ run.requests[n - 1].endpoint = "update_draft"
          /\ Answered(n - 1).kind = "return"
          /\ Answered(n - 1).extracted = << >>
          /\ run.requests[n - 1].context.draft_id = Str("d1")
          /\ run.requests[n].context = run.requests[n - 1].context

(***************************************************************************)
(* C28: task.results is append-only and then frozen.  While sync runs,      *)
(* every step leaves the results there are in place and at most adds        *)
(* results after them; once sync has returned, the task (its results and    *)
(* its status) is not changed any more, neither by a later step nor by a    *)
(* later call of sync on the same engine, which works on a task of its own. *)
(***************************************************************************)
IsPrefix(s, t) == Len(s) <= Len(t) /\ SubSeq(t, 1, Len(s)) = s

C28_Step ==
    /\ pc # "returned" => IsPrefix(task.results, task'.results)
    /\ (pc = "returned" /\ pc' = "returned") => task' = task
    /\ (pc = "returned" /\ pc' # "returned") =>
         /\ Len(tasks') = Len(tasks) + 1
         /\ tasks'[Len(tasks')] = task
    /\ IsPrefix(tasks, tasks')

C28_ResultsAppendOnlyThenFrozen == [][C28_Step]_vars

\* a second call of sync has returned with a result of its own; the task of
\* the first call still holds its result
C28_Witness ==
    /\ pc = "returned"
    /\ Len(tasks) = 1
    /\ Len(tasks[1].results) = 1
    /\ tasks[1].status = "completed"
    /\ Len(task.results) = 1
    /\ task.status = "failed"

(***************************************************************************)
(* C30: the outcome of sync does not depend on what onProgress does.  When  *)
(* sync has returned after the callback threw for some platform, the        *)
(* result of every platform whose workflow completed is in task.results,    *)
(* every platform has been started unless continueOnError = false and a     *)
(* result failed, and task.status is "completed" exactly if every result    *)
(* succeeded.                                                               *)
(***************************************************************************)
CallbackThrew ==
    \E p \in PlatformId : wf[p].pc = "done" /\ mapPromise[p] = "rejected"

C30_OutcomeIndependentOfCallback ==
    (pc = "returned" /\ CallbackThrew) =>
        /\ \A p \in PlatformId :
             wf[p].pc = "done" =>
                \E j \in 1..Len(task.results) : task.results[j] = wf[p].result
        /\ (ContinueOnError \/ AllSucceeded(task.results)) =>
             \A k \in 1..Len(platforms) : wf[platforms[k]].pc # "notStarted"
        /\ task.status = "completed" <=> AllSucceeded(task.results)

(***************************************************************************)
(* C31: for every concurrency >= 1 and every order in which the workflows  *)
(* of a batch complete, task.results is in input order: results[j] is the  *)
(* result of platforms[j] for every j up to the number of results.          *)
(***************************************************************************)
C31_ResultsInInputOrder ==
    Concurrency >= 1 =>
        \A j \in 1..Len(task.results) :
            /\ j <= Len(platforms)
            /\ task.results[j] = wf[platforms[j]].result
            /\ task.results[j].platform = platforms[j]

\* one batch of two; the second platform's workflow completed before the
\* first one's, with another outcome: the results are in input order
C31_Witness ==
    /\ Len(platforms) = 2
    /\ Concurrency >= 2
    /\ overtaken
    /\ pc = "returned"
    /\ Len(task.results) = 2
    /\ task.results[1].platform = platforms[1]
    /\ ~task.results[1].success
    /\ task.results[2].success

(***************************************************************************)
(* C32: update_draft is sent if and only if the definition has an          *)
(* update_draft endpoint and create_draft ran in this run and extracted a   *)
(* non-empty draft_id.  A run whose definition has update_draft but no      *)
(* create_draft, or whose create_draft answer holds no draft_id, sends no   *)
(* update_draft and goes on to the terminal branch: it publishes or ends in *)
(* success.                                                                 *)
(***************************************************************************)
CreateDraftReturned ==
    \E j \in 1..Len(run.responses) :
        run.requests[j].endpoint = "create_draft" /\ Answered(j).kind = "return"

DraftIdExtracted ==
    \E j \in 1..Len(run.responses) :
        /\ run.requests[j].endpoint = "create_draft"
        /\ Answered(j).kind = "return"
        /\ LET id == Lookup(Answered(j).extracted, "draft_id")
           IN id.t = "string" /\ id.v # ""

\* the run is past its transforms and past create_draft, if there is one
PastCreateDraft ==
    IF dsl.create_draft.present THEN CreateDraftReturned
    ELSE /\ run.pc \in {"publish", "done"}
         /\ ~AuthCheckFailed
         /\ ~HookThrew("process_images")
         /\ ~HookThrew("content_transform")

C32_UpdateDraftIffDraftId ==
    /\ Sent("update_draft") => dsl.update_draft.present /\ DraftIdExtracted
    /\ (dsl.update_draft.present /\ DraftIdExtracted) => Sent("update_draft")
    /\ (PastCreateDraft /\ ~DraftIdExtracted) =>
         /\ ~Sent("update_draft")
         /\ \/ run.pc = "publish"
            \/ Sent("publish")
            \/ run.pc = "done" /\ run.result.success

\* the definition has update_draft; create_draft has returned an answer
\* without an id: the run has gone straight to publish
C32_Witness ==
    /\ dsl.update_draft.present
    /\ dsl.create_draft.present
    /\ CreateDraftReturned
    /\ ~DraftIdExtracted
    /\ run.pc = "publish"
    /\ run.requests[Len(run.requests) - 1].endpoint = "create_draft"

(***************************************************************************)
(* C33: for a comparison `<path> == <literal>` or `<path> != <literal>`,    *)
(* the path written `$.a.b` or bare `a.b`, the literal being null,          *)
(* undefined, true, false, an integer, a float or a quoted string,          *)
(* evaluateJsonPath returns the boolean of the strict (in)equality between  *)
(* the nested value at the path and the literal's value; for a plain path   *)
(* it returns the nested value, undefined when there is none.               *)
(***************************************************************************)
SameValue(x, y) == x.t = y.t /\ x.v = y.v

ExpectedEvaluation(source, data) ==
    LET nested == GetNestedValue(data, source.keys)
    IN CASE source.op = "none" -> nested
         [] source.op = "==" -> Bool(nested.t # "object" /\ SameValue(nested, source.lit.value))
         [] source.op = "!=" -> Bool(~(nested.t # "object"
                                       /\ SameValue(nested, source.lit.value)))

C33_ComparisonIsStrictEquality ==
    (expr.fn = "evaluateJsonPath" /\ expr.pc = "returned") =>
        SameValue(expr.out, ExpectedEvaluation(expr.source, expr.data))

(***************************************************************************)
(* C36: interpolate is total.  Every placeholder whose path leads to a      *)
(* value in the context is replaced by that value as a string, every        *)
(* placeholder whose path leads nowhere (a key that is not there, a path    *)
(* through a missing or non-object value) by the empty string, the text     *)
(* around the placeholders is kept, and a template without placeholders     *)
(* comes back unchanged.                                                    *)
(***************************************************************************)
RECURSIVE Resolved(_, _)
Resolved(value, keys) ==
    IF keys = << >> THEN value
    ELSE IF value.t = "object" /\ Head(keys) \in DOMAIN value.v
    THEN Resolved(value.v[Head(keys)], Tail(keys))
    ELSE UndefinedV

ExpectedPiece(piece, context) ==
    LET value == Resolved(context, piece.keys)
    IN CASE piece.kind = "text" -> piece.text
         [] value.t = "undefined" -> ""
         [] value.t = "object" -> "[object Object]"
         [] OTHER -> value.v

RECURSIVE ExpectedInterpolation(_, _)
ExpectedInterpolation(source, context) ==
    IF source = << >> THEN ""
    ELSE ExpectedPiece(Head(source), context)
         \o ExpectedInterpolation(Tail(source), context)

C36_InterpolateTotal ==
    (expr.fn = "interpolate" /\ expr.pc = "returned") =>
        /\ expr.out.t = "string"
        /\ expr.out.v = ExpectedInterpolation(expr.source, expr.data)
        /\ (\A j \in 1..Len(expr.source) : expr.source[j].kind = "text") =>
             expr.out.v = expr.text

\* a template with a placeholder that resolves and, padded with blanks,
\* one that goes through a value that is not an object
C36_Witness ==
    /\ expr.fn = "interpolate"
    /\ expr.pc = "returned"
    /\ expr.text = "{{article.title}}{{ draft_id.x }}"
    /\ expr.out = Str("T")

(***************************************************************************)
(* C34: interpolating a body template preserves its shape.  Objects stay   *)
(* objects with the same keys, arrays stay arrays of the same length and   *)
(* order, binary values pass through unchanged, only string leaves are     *)
(* rewritten; and a multipart body sends each binary value of the template *)
(* as a binary part.                                                       *)
(***************************************************************************)
RECURSIVE DeepEqual(_, _)
DeepEqual(x, y) ==
    /\ x.t = y.t
    /\ CASE x.t = "object" ->
              /\ DOMAIN x.v = DOMAIN y.v
              /\ \A key \in DOMAIN x.v : DeepEqual(x.v[key], y.v[key])
         [] x.t = "array" ->
              /\ Len(x.v) = Len(y.v)
              /\ \A j \in 1..Len(x.v) : DeepEqual(x.v[j], y.v[j])
         [] OTHER -> x.v = y.v

BinaryKeys(template) == { key \in DOMAIN template.v : template.v[key].t = "blob" }

C34_InterpolateObjectKeepsShape ==
    /\ (expr.fn = "interpolateObject" /\ expr.pc = "returned") =>
          DeepEqual(expr.out, InterpolateObjectKeepingShape(expr.source, expr.data))
    /\ (/\ expr.fn = "executeEndpoint"
        /\ expr.pc = "sent"
        /\ expr.source.body # 0
        /\ expr.source.content_type = "multipart"
        /\ ~expr.source.customLogic.prepare_body) =>
          \A key \in BinaryKeys(BodyTemplates[expr.source.body]) :
              expr.out.body.parts[key] =
                  [binary |-> TRUE, value |-> BodyTemplates[expr.source.body].v[key].v]

(***************************************************************************)
(* C35: every header value that executeEndpoint hands to the transport is  *)
(* the endpoint's header template interpolated against the context, as the *)
(* url is; no placeholder of a header template reaches the transport.      *)
(***************************************************************************)
OwnHeaders(request) ==
    { name \in DOMAIN request.headers :
        ~(request.customLogic.before_request
          /\ name \in DOMAIN request.customLogic.dynamicHeaders) }

C35_HeadersInterpolated ==
    (expr.fn = "executeEndpoint" /\ expr.pc = "sent") =>
        /\ expr.out.url = Interpolate(expr.source.url, expr.data)
        /\ \A name \in OwnHeaders(expr.source) :
              expr.out.headers[name] = Interpolate(expr.source.headers[name], expr.data)

\* the same without the placeholders: a header template that has none reaches
\* the transport as written
HeaderSentAsWritten ==
    (expr.fn = "executeEndpoint" /\ expr.pc = "sent") =>
        /\ expr.out.url = Interpolate(expr.source.url, expr.data)
        /\ \A name \in OwnHeaders(expr.source) :
              expr.out.headers[name] = expr.source.headers[name]
(***************************************************************************)
(* C37: no completed update of the CMS store is lost.  An account whose    *)
(* addAccount returned success and for which removeAccount was not called  *)
(* is in the accounts in memory and in the stored cmsAccounts; an account  *)
(* whose removeAccount completed is in neither.                            *)
(***************************************************************************)
C37_NoLostUpdate ==
    /\ \A id \in cms.added \ cms.removeCalled :
          id \in AccountIds(cms.accounts) /\ id \in AccountIds(cms.cmsAccounts)
    /\ \A id \in cms.removed :
          id \notin AccountIds(cms.accounts) /\ id \notin AccountIds(cms.cmsAccounts)
(***************************************************************************)
(* C38: while an SSE connection opened on /sse is open, a POST to /message *)
(* is handled by the transport of an open connection and is not answered   *)
(* with 400; the close of an older connection leaves the transport of a    *)
(* newer, still open connection installed.                                 *)
(***************************************************************************)
NewestOpen == CHOOSE c \in sse.open : \A d \in sse.open : d <= c

C38_PostReachesOpenConnection ==
    /\ (sse.lastPost.answer # "none" /\ sse.lastPost.open # {}) =>
          /\ sse.lastPost.answer = "handled"
          /\ sse.lastPost.transport \in sse.lastPost.open
    /\ (sse.open # {} /\ NewestOpen = sse.connections) => sse.transport = NewestOpen

\* a POST that is handled is handled by a connection that is open
HandledByOpenConnection ==
    sse.lastPost.answer = "handled" => sse.lastPost.transport \in sse.lastPost.open
(***************************************************************************)
(* C39: checkAndMigrate migrates at most once.  Under any interleaving of  *)
(* invocations, failing ones included, each old account is added to        *)
(* cmsAccounts at most once; an invocation that fails has not set the      *)
(* v2_migration_done flag, and an invocation skips only when the flag is   *)
(* set; once the flag is set no invocation modifies cmsAccounts.           *)
(***************************************************************************)
FailedUnmarked ==
    \A k \in 1..Len(mig.invocations) :
        /\ mig.invocations[k].pc = "failed" => ~mig.invocations[k].marked
        /\ mig.invocations[k].pc = "skipped" => mig.v2_migration_done

C39_MigratesAtMostOnce ==
    /\ \A j \in 1..Len(mig.added) : mig.added[j] <= 1
    /\ FailedUnmarked
    /\ ~mig.modifiedAfterDone

\* no url twice in cmsAccounts
NoDuplicateUrl ==
    \A j, k \in 1..Len(mig.cmsAccounts) :
        mig.cmsAccounts[j].url = mig.cmsAccounts[k].url => j = k
(***************************************************************************)
(* C40: the Weibo image-status polling terminates.  waitForImageDone makes *)
(* at most 30 requests, with a wait before every request but the first; it *)
(* returns at the first request that reports task_status_code 1; when no   *)
(* request reports it, it throws the upload-timeout error after the 30th;  *)
(* and the call always ends, each request having returned or failed.       *)
(***************************************************************************)
PollEnded == poll.pc \in {"returned", "threw"}

C40_Safety ==
    /\ poll.polls <= 30
    \* a wait before every request but the first
    /\ poll.pc = "fetching" => poll.delays = poll.polls - 1
    \* it returns at the first request that reports 1, with that answer
    /\ poll.pc = "returned" <=>
          (poll.last.given /\ poll.last.task_status_code = 1)
    \* the timeout is thrown after the 30th request and not before
    /\ (poll.pc = "threw" /\ poll.error = "upload timeout") =>
          (poll.polls = 30 /\ poll.delays = 30)
    /\ (poll.pc = "threw" /\ poll.polls < 30) => poll.error = "request failed"

C40_PollingTerminates == []C40_Safety /\ <>PollEnded

\* thirty requests, none reporting 1, then the timeout
C40_Witness ==
    /\ poll.pc = "threw"
    /\ poll.error = "upload timeout"
    /\ poll.polls = 30
    /\ poll.last = [given |-> TRUE, task_status_code |-> 2]

\* a call that returns at its third request
PollReturnedAtThird ==
    poll.pc = "returned" /\ poll.polls = 3 /\ poll.delays = 2
====
